---------------------------- MODULE Spec2Model ----------------------------
(***************************************************************************)
(* A model of the peer-to-peer chat node of this repository: the transport *)
(* (network.py), the presence and chat layer (chat.py) and the chunked     *)
(* file transfer (file_transfer.py).                                       *)
(*                                                                         *)
(* The module holds several specifications over one set of variables:      *)
(*   SpecFile  one SendFile from node "A" to node "B" over an established  *)
(*             connection: chunking worker, readers, monitors, dedup.      *)
(*   SpecChat  two nodes "A" and "B": start, dial, accept, presence, chat, *)
(*             heartbeats, the refresh timer, readers and stop, one        *)
(*             handler at a time.                                          *)
(*   SpecStop  ChatNetwork.stop of one transport, statement by statement,  *)
(*             against its acceptor, readers, heartbeat worker and a       *)
(*             caller of connect_to_peer.                                  *)
(*   SpecWire  the bytes that workers calling send_to_peer give to one     *)
(*             peer socket with a bounded send buffer.                     *)
(* Each specification leaves the variables of the other parts unchanged.   *)
(***************************************************************************)
EXTENDS Integers, Sequences, FiniteSets, TLC

VARIABLES
    \* ---- file transfer (SpecFile) ----
    disk,                \* the sender's source file at file_path, or NoFile
    f_users,             \* node -> whether its users table holds the other node
    clock,               \* node -> the last value time.time() returned there
    sending_transfers,   \* sender: transfer_id -> outgoing record
    send_ret,            \* what send_file returned: "none" (not called), "true", "false"
    wpc,                 \* the chunking worker: "none", "chunks", "wait", "done"
    todo,                \* the chunk indices the worker's first pass has yet to send
    net,                 \* "AB", "BA" -> envelopes in flight, in TCP order
    processed_messages,  \* node -> fingerprints the reader has seen
    ongoing_transfers,   \* receiver: transfer_id -> incoming record
    completed_transfers, \* receiver: transfer_id -> completed record
    dest,                \* the receiver's destination file, or NoDest
    note,                \* the notification the receiver's last handler returned
    g,                   \* history: what was put on the wire, read, lost, timed out
    \* ---- presence and chat (SpecChat; shares clock, processed_messages) ----
    running,             \* node -> ChatNetwork.running
    peers,               \* node -> the addresses in ChatNetwork.peers
    users,               \* node -> ChatRoom.users: address -> [username, status]
    inbox,               \* node -> address -> envelopes its socket has yet to read
    eof,                 \* node -> the addresses whose far end has closed
    readers,             \* node -> the addresses with a live _handle_peer worker
    backlog,             \* node -> connections its listen socket has yet to accept
    cb,                  \* node -> what its registered callback has been given
    h,                   \* history: dials, sends, stops and what they handed over
    \* ---- one transport's stop against its workers (SpecStop) ----
    net_running,         \* ChatNetwork.running
    server_socket,       \* the listen socket: "listening" or "closed"
    net_peers,           \* the addresses in ChatNetwork.peers
    registered,          \* the peer sockets that were ever put into the map
    closed,              \* the peer sockets that have been closed
    pending,             \* connections waiting at the listen socket
    held,                \* worker -> the socket it has not registered yet
    it,                  \* stop's iterator over peers.values()
    pc,                  \* worker -> where it is in its code
    \* ---- the bytes given to one peer socket (SpecWire) ----
    stream,              \* the bytes the socket has taken, in order
    sndbuf,              \* how many bytes its send buffer holds
    peer_up,             \* the address is in ChatNetwork.peers
    calls,               \* worker -> how many envelopes it has handed over
    rets,                \* what send_to_peer returned, per envelope
    \* ---- one transport's readers, statement by statement (SpecInbound) ----
    in_pc,               \* reader -> where it is in _handle_peer's loop
    in_msg,              \* reader -> the envelope it has parsed
    last_heartbeat,      \* address -> when data last arrived from it
    on_message,          \* what the transport passed to message_callback
    message_history,     \* ChatRoom.message_history
    appended,            \* every envelope ever appended to the history
    notified,            \* what the registered callbacks were given
    ig,                  \* history: arrivals, evictions, the largest set seen
    \* ---- send_to_peer on one transport's maps (SpecSend) ----
    tp,                  \* peers, message_buffers, last_heartbeat, closed sockets
    tp_call,             \* the calls of send_to_peer so far and what they returned
    \* ---- send_file called more than once (SpecTwice) ----
    tw_time,             \* time.time() in ticks of 1/TicksPerSecond second
    tw_size,             \* the size of the file at file_path, in bytes
    tw_up,               \* the metadata broadcast reaches a peer
    tw_sending,          \* sending_transfers: transfer_id -> record
    tw_workers,          \* the chunking workers: transfer_id, position, what they sent
    tw_wire,             \* envelopes in flight to the receiver
    tw_ongoing,          \* the receiver's ongoing_transfers
    tw_log,              \* history: the calls of send_file and what they returned
    \* ---- one reader and the bytes of its peer (SpecFrame) ----
    fr_sent,             \* the lines the peer writes, in order
    fr_stream,           \* the bytes of them that recv has yet to return
    fr_buf,              \* message_buffers: address -> the bytes held back
    fr_seen,             \* processed_messages
    fr_out,              \* the envelopes passed to message_callback, in order
    fr_up,               \* the peer is in ChatNetwork.peers
    fr_log,              \* history: the reads so far, the lines of the last read
    \* ---- ChatRoom.stop and the refresh timer (SpecTimer) ----
    tm_started,          \* ChatRoom.start has been called
    tm_pc,               \* how many statements of ChatRoom.stop have been executed
    tm_timers,           \* Timer object -> "new", "pending", "cancelled", "running", "done"
    tm_ref,              \* the Timer that _peer_refresh_timer refers to, or 0
    tm_net,              \* ChatNetwork.running: the peer sockets are open
    tm_monitor,          \* FileTransferManager.monitor_running
    tm_conn,             \* a caller of connect_to_peer: "none", "refreshing", "done"
    tm_log,              \* history: the steps of stop, refreshes after stop
    \* ---- the liveness check against the readers (SpecBeat) ----
    bt_now,              \* time.time(), in seconds
    bt_peers,            \* the addresses in ChatNetwork.peers
    bt_lh,               \* last_heartbeat: address -> time, for the keys it has
    bt_rpc,              \* reader of an address: "none", "unstarted", "recv", "got"
    bt_got,              \* address -> when recv last returned data from it, 0: never
    bt_log,              \* history: the last liveness check and whom it removed
    \* ---- the user table under presence envelopes (SpecPresence) ----
    pr_peers,            \* the addresses with an open connection
    pr_users,            \* ChatRoom.users in insertion order: [address, username, status]
    pr_calls,            \* what the last _handle_presence_update passed to the callbacks
    pr_log,              \* history: the last presence handled, addresses entered, closed
    \* ---- the monitor against stalled outgoing transfers (SpecMonitor) ----
    mn_now,              \* time.time(), in seconds
    mn_sending,          \* sending_transfers: id -> [total_chunks, acked_chunks, last_activity]
    mn_sent,             \* the <<id, chunk_index>> the last monitor tick resent, in order
    mn_log,              \* history: the last tick's current_time and the table it found
    mn_ongoing,          \* ongoing_transfers: id -> [total_chunks, received_chunks, last_activity]
    mn_requests,         \* the file_chunk_request envelopes the last monitor tick broadcast
    mn_notified,         \* the notifications the last monitor tick handed to the callbacks
    cn_peers,            \* peers: address -> the connection registered under it
    cn_buf,              \* the keys of message_buffers
    cn_lh,               \* the keys of last_heartbeat
    cn_sock,             \* per connection: "none", "open" or "closed" (closed at this end)
    cn_rpc,              \* per connection: where its reader thread is
    cn_addr,             \* per connection: the address it was registered under
    cn_running,          \* ChatNetwork.running
    cn_log,              \* history: the last exit of a reader and the last removal
    ak_rcvs,             \* the peers connected to the sender
    ak_pc,               \* _send_file_chunks: "idle", "chunks", "wait" or "done"
    ak_next,             \* _send_file_chunks: the chunk_index of the first pass
    ak_acked,            \* the sender's acked_chunks of the transfer
    ak_reg,              \* the receivers with the transfer in ongoing_transfers
    ak_held,             \* per receiver: the keys of received_chunks
    ak_done,             \* per receiver: the transfer is in completed_transfers
    ak_inbox,            \* per receiver: the envelopes of the sender not yet handled
    ak_acks,             \* the file_chunk_ack and file_chunk_request envelopes on the way to the sender
    ak_log,              \* history: the stores that failed, the requests handled
    dp_peers,            \* the addresses in ChatNetwork.peers
    dp_users,            \* the addresses in ChatRoom.users
    dp_seen,             \* processed_messages
    dp_log               \* history: the last envelope a reader took and what became of it

\* the variables of the file transfer alone, and those it shares
fonly == <<disk, f_users, sending_transfers, send_ret, wpc, todo, net,
           ongoing_transfers, completed_transfers, dest, note, g>>
shared == <<clock, processed_messages>>
cvars == <<running, peers, users, inbox, eof, readers, backlog, cb, h>>

tvars == <<net_running, server_socket, net_peers, registered, closed,
           pending, held, it, pc>>
wvars == <<stream, sndbuf, peer_up, calls, rets>>

ivars == <<in_pc, in_msg, last_heartbeat, on_message, message_history,
           appended, notified, ig>>
svars == <<tp, tp_call>>
xvars == <<tw_time, tw_size, tw_up, tw_sending, tw_workers, tw_wire,
           tw_ongoing, tw_log>>

\* the variables of the specifications that follow SpecTwice
frvars == <<fr_sent, fr_stream, fr_buf, fr_seen, fr_out, fr_up, fr_log>>
tmvars == <<tm_started, tm_pc, tm_timers, tm_ref, tm_net, tm_monitor, tm_conn, tm_log>>
btvars == <<bt_now, bt_peers, bt_lh, bt_rpc, bt_got, bt_log>>
prvars == <<pr_peers, pr_users, pr_calls, pr_log>>
mnvars == <<mn_now, mn_sending, mn_sent, mn_log, mn_ongoing, mn_requests,
           mn_notified>>
cnvars == <<cn_peers, cn_buf, cn_lh, cn_sock, cn_rpc, cn_addr, cn_running, cn_log>>
akvars == <<ak_rcvs, ak_pc, ak_next, ak_acked, ak_reg, ak_held, ak_done, ak_inbox, ak_acks, ak_log>>
dpvars == <<dp_peers, dp_users, dp_seen, dp_log>>
nvars == <<frvars, tmvars, btvars, prvars, mnvars, cnvars, akvars, dpvars>>

vars == <<fonly, shared, cvars, tvars, wvars, ivars, svars, xvars, nvars>>

-----------------------------------------------------------------------------
(* Bounds of the model *)

\* A file has at most MaxChunks chunks.
MaxChunks == 2
\* At most MaxStall calls of time.time() return the same value as the call
\* before on that node (a clock coarser than the time between two calls).
MaxStall == 1
\* The timeout monitors find a stalled transfer at most MaxMonitor times.
MaxMonitor == 1
\* The network layer drops at most MaxLoss first-pass file_chunk envelopes.
MaxLoss == 1
\* The source file is overwritten in place at most MaxEdits times.
MaxEdits == 1

(* Program constants *)
chunk_size == 4096
message_ttl == 100
RESUME_CAP == 20
REQUEST_CAP == 50

-----------------------------------------------------------------------------
(* Helpers *)

Min(a, b) == IF a < b THEN a ELSE b

EmptyFn == [i \in {} |-> 0]

\* f with f[i] set to v (a dict assignment)
Put(f, i, v) == [j \in (DOMAIN f) \cup {i} |-> IF j = i THEN v ELSE f[j]]

\* f without key i (dict del / pop)
Del(f, i) == [j \in (DOMAIN f) \ {i} |-> f[j]]

\* the elements of a finite set of integers in increasing order
RECURSIVE Sorted(_)
Sorted(S) ==
    IF S = {} THEN <<>>
    ELSE LET m == CHOOSE x \in S : \A y \in S : x <= y
         IN  <<m>> \o Sorted(S \ {m})

\* the first n elements of a sequence (the slice s[:n])
Take(s, n) == SubSeq(s, 1, Min(n, Len(s)))

Range(s) == {s[i] : i \in DOMAIN s}

\* no file at the path
NoFile == [size |-> -1, data |-> [i \in {} |-> 0]]
NoDest == [exists |-> FALSE, content |-> <<>>]
Nodes == {"A", "B"}
Sender == "A"
Receiver == "B"

\* The one file name sent; its transfer_id embeds the sender and the name.
TID == "t_A_file"

\* the other node of the two
Other(n) == IF n = "A" THEN "B" ELSE "A"
\* the address of node m's listen socket, which a dialer's peer map is keyed by
Listen(m) == <<"L", m>>
\* the ephemeral address node m dialed from, which an acceptor's map is keyed by
Ephemeral(m) == <<"E", m>>
\* the addresses a node can know a connection by
Addrs(n) == {Listen(m) : m \in Nodes} \cup {Ephemeral(m) : m \in Nodes}
\* the node at the far end of the connection known as address
Node(address) == address[2]
\* the key of the connection n knows as address, in the far node's peer map
Far(n, address) == IF address[1] = "L" THEN Ephemeral(n) ELSE Listen(n)

\* the callback has been given nothing
NoCalls == [chat |-> 0, last_update |-> {}, updated |-> FALSE, gone |-> FALSE]
NoCast == [done |-> FALSE, peers |-> {}, handed |-> {}]
NoChatHist ==
    [stopped |-> [n \in Nodes |-> FALSE], dial |-> [n \in Nodes |-> "none"],
     self |-> [n \in Nodes |-> FALSE],
     sent |-> [n \in Nodes |-> 0], refresh |-> 0, beats |-> 0,
     bcast |-> [n \in Nodes |-> NoCast], stop |-> [n \in Nodes |-> NoCast]]

-----------------------------------------------------------------------------
(* Files.  A file is its size and the content of each chunk_size block;    *)
(* the content of a block is one of Symbols.                               *)

Symbols == {1, 2}

\* total_chunks = (file_size + chunk_size - 1) // chunk_size
FloorChunks(file_size) == file_size \div chunk_size
total_chunks(file_size) == (file_size + chunk_size - 1) \div chunk_size

\* the sizes of the source file: empty, whole blocks, one byte more
FileSizes ==
    {0} \cup {k * chunk_size : k \in 1..(MaxChunks - 1)}
        \cup {k * chunk_size + 1 : k \in 0..(MaxChunks - 1)}

\* The block contents are interchangeable: the first block of the file
\* send_file finds holds symbol 1.
Files ==
    UNION {{[size |-> s, data |-> d] :
               d \in {e \in [0..(total_chunks(s) - 1) -> Symbols] :
                         total_chunks(s) > 0 => e[0] = 1}}
           : s \in FileSizes}

EmptyChunk == [sym |-> 0, len |-> 0]

\* f.seek(chunk_index * chunk_size); f.read(chunk_size)
ReadChunk(file, chunk_index) ==
    IF chunk_index * chunk_size < file.size /\ chunk_index >= 0
    THEN [sym |-> file.data[chunk_index],
          len |-> Min(chunk_size, file.size - chunk_index * chunk_size)]
    ELSE EmptyChunk

\* the bytes of a file, as the sequence of its blocks
Content(file) == [i \in 1..total_chunks(file.size) |-> ReadChunk(file, i - 1)]

\* a digest that depends on the length of the content only
SizeOnlyHash(content) == <<"md5", Len(content)>>

\* _calculate_file_hash(path): hashlib.md5 over the bytes of the file, a
\* collision-free digest of its content
_calculate_file_hash(content) == <<"md5", content>>

\* a verification that never reports a mismatch
NeverMismatch(calculated_hash, file_hash) == FALSE

\* if calculated_hash != transfer["file_hash"]
HashMismatch(calculated_hash, file_hash) == calculated_hash # file_hash

\* base64.b64encode / b64decode
b64encode(chunk) == [b64 |-> chunk]
b64decode(data) == data.b64

-----------------------------------------------------------------------------
(* Envelopes *)

None == "None"

Envelope(type, ts, sender, idx, data, chunks, meta, first) ==
    [type |-> type, timestamp |-> ts, sender |-> sender, chunk_index |-> idx,
     data |-> data, chunks |-> chunks, meta |-> meta, first |-> first]

NoMeta == [file_size |-> 0, total_chunks |-> 0, file_hash |-> <<>>]

\* msg_id = f"{message.get('timestamp')}_{message.get('sender')}"
msg_id(message) == <<message.timestamp, message.sender>>

\* processed_messages.add(msg_id); pop an arbitrary element when over message_ttl
AddProcessed(P, id) ==
    IF Cardinality(P \cup {id}) > message_ttl
    THEN {(P \cup {id}) \ {x} : x \in P \cup {id}}
    ELSE {P \cup {id}}

\* a call of time.time() on node n in st = [net, clock, g]: the value t it
\* returns and the state st it leaves.  The clock has advanced since the
\* last call, or (at most MaxStall times) it has not.
Times(n, st) ==
    {[t |-> st.clock[n] + 1,
      st |-> [st EXCEPT !.clock[n] = @ + 1]]}
    \cup (IF st.g.stalls < MaxStall
          THEN {[t |-> st.clock[n],
                 st |-> [st EXCEPT !.g.stalls = @ + 1]]}
          ELSE {})

Dir(n) == IF n = Sender THEN "AB" ELSE "BA"

\* ChatRoom._broadcast_message on node n, with nw in flight: every address in
\* users gets the envelope; False (and nothing sent) when users is empty
_broadcast_message(nw, n, message) ==
    IF f_users[n] THEN [nw EXCEPT ![Dir(n)] = Append(@, message)] ELSE nw

-----------------------------------------------------------------------------
(* File transfer: the sender *)

NoHist ==
    [src |-> <<>>, reads |-> {}, meta |-> 0, complete |-> 0, request |-> 0,
     chunk |-> [i \in 0..(MaxChunks - 1) |-> 0],
     ack |-> [i \in 0..(MaxChunks - 1) |-> 0],
     lost |-> 0, stalls |-> 0, edits |-> 0, monitor |-> 0, event |-> "none",
     waits |-> FALSE]

\* no transfer has been started
FileAtRest ==
    /\ sending_transfers = EmptyFn
    /\ send_ret = "none"
    /\ wpc = "none"
    /\ todo = <<>>
    /\ net = [d \in {"AB", "BA"} |-> <<>>]
    /\ ongoing_transfers = EmptyFn
    /\ completed_transfers = EmptyFn
    /\ dest = NoDest
    /\ note = None
    /\ g = NoHist

\* ChatNetwork.__init__: no fingerprint seen; no call of time.time() yet
SharedInit ==
    /\ clock = [n \in Nodes |-> 0]
    /\ processed_messages = [n \in Nodes |-> {}]

\* ChatRoom.__init__, ChatNetwork.__init__ on both nodes
ChatAtRest ==
    /\ running = [n \in Nodes |-> FALSE]
    /\ peers = [n \in Nodes |-> {}]
    /\ users = [n \in Nodes |-> EmptyFn]
    /\ inbox = [n \in Nodes |-> [a \in Addrs(n) |-> <<>>]]
    /\ eof = [n \in Nodes |-> {}]
    /\ readers = [n \in Nodes |-> {}]
    /\ backlog = [n \in Nodes |-> {}]
    /\ cb = [n \in Nodes |-> NoCalls]
    /\ h = NoChatHist

\* the workers of the transport whose stop is followed step by step: the
\* caller of stop, the acceptor, the heartbeat worker, a caller of
\* connect_to_peer, and one _handle_peer worker per peer socket
Sockets == {"p1", "p2", "p3"}
Workers == {"stop", "accept", "beat", "dial"} \cup Sockets

\* no transport is followed step by step
StopAtRest ==
    /\ net_running = FALSE
    /\ server_socket = "closed"
    /\ net_peers = {}
    /\ registered = {}
    /\ closed = {}
    /\ pending = {}
    /\ held = [w \in {"accept", "dial"} |-> None]
    /\ it = [size |-> 0, seen |-> {}]
    /\ pc = [w \in Workers |-> "none"]

\* the workers that send to the one peer socket: the caller of send_message,
\* the heartbeat worker
Senders == {"gui", "beat"}

\* nothing has been sent
WireAtRest ==
    /\ stream = <<>>
    /\ sndbuf = 0
    /\ peer_up = FALSE
    /\ calls = [w \in Senders |-> 0]
    /\ rets = {}

\* the peers whose readers are followed statement by statement
InPeers == {"p1", "p2"}

NoInboundHist ==
    [arrived |-> 0, taken |-> {}, at |-> [r \in InPeers |-> 0], evicted |-> 0,
     peak |-> 0, sent |-> 0]

\* no reader is followed statement by statement
InboundAtRest ==
    /\ in_pc = [r \in InPeers |-> "none"]
    /\ in_msg = [r \in InPeers |-> None]
    /\ last_heartbeat = [r \in InPeers |-> 0]
    /\ on_message = {}
    /\ message_history = <<>>
    /\ appended = <<>>
    /\ notified = {}
    /\ ig = NoInboundHist

\* a transport with no peer
SendAddrs == {"p1", "p2", "p3"}

\* ChatNetwork.__init__: no peer, no receive buffer, no heartbeat entry; no
\* socket closed, nothing written
NoTransport ==
    [peers |-> {}, message_buffers |-> {}, last_heartbeat |-> {}, closed |-> {},
     written |-> [a \in SendAddrs |-> 0]]

NoSendCall == [n |-> 0, peer_address |-> "None", outcome |-> "none", result |-> FALSE]

\* send_to_peer has not been called
SendAtRest ==
    /\ tp = NoTransport
    /\ tp_call = NoSendCall

NoTwiceLog ==
    [calls |-> <<>>, edits |-> 0, left |-> FALSE, back |-> FALSE, assembled |-> {},
     partial |-> FALSE]

\* send_file has not been called
TwiceAtRest ==
    /\ tw_time = 0
    /\ tw_size = 0
    /\ tw_up = FALSE
    /\ tw_sending = EmptyFn
    /\ tw_workers = {}
    /\ tw_wire = [ab |-> <<>>, ba |-> <<>>]
    /\ tw_ongoing = EmptyFn
    /\ tw_log = NoTwiceLog

\* the addresses of the reader that is followed and of a second peer
FrameAddrs == {"p", "q"}

NoFrameLog == [marks |-> <<>>, lines |-> <<>>]

\* nothing has been written to the reader's socket
FrameAtRest ==
    /\ fr_sent = <<>>
    /\ fr_stream = <<>>
    /\ fr_buf = [a \in FrameAddrs |-> <<>>]
    /\ fr_seen = {}
    /\ fr_out = <<>>
    /\ fr_up = FALSE
    /\ fr_log = NoFrameLog

MaxTimers == 3

NoTimerLog == [events |-> <<>>, after_stop |-> 0]

\* ChatRoom.__init__: no timer; FileTransferManager.__init__ has started the
\* monitor; the transport is not running
TimerAtRest ==
    /\ tm_started = FALSE
    /\ tm_pc = 0
    /\ tm_timers = [id \in 1..MaxTimers |-> "new"]
    /\ tm_ref = 0
    /\ tm_net = FALSE
    /\ tm_monitor = TRUE
    /\ tm_conn = "none"
    /\ tm_log = NoTimerLog

BeatPeers == {"p1", "p2"}

\* time.time() when the transport starts
Epoch == 20

NoBeatLog ==
    [checks |-> 0, removed |-> {}, stale |-> {}, fresh |-> {}, at |-> 0,
     registered |-> EmptyFn]

\* ChatNetwork.__init__: no peer, no heartbeat entry
BeatAtRest ==
    /\ bt_now = Epoch
    /\ bt_peers = {}
    /\ bt_lh = EmptyFn
    /\ bt_rpc = [a \in BeatPeers |-> "none"]
    /\ bt_got = [a \in BeatPeers |-> 0]
    /\ bt_log = NoBeatLog

NoPresenceLog ==
    [handled |-> FALSE, address |-> "None", username |-> "None",
     status |-> "None", before |-> <<>>, entered |-> {}, closed |-> {}]

\* ChatRoom.__init__: users = {}
PresenceAtRest ==
    /\ pr_peers = {}
    /\ pr_users = <<>>
    /\ pr_calls = <<>>
    /\ pr_log = NoPresenceLog

NoMonitorLog ==
    [ticks |-> 0, current_time |-> 0, before |-> EmptyFn, after |-> EmptyFn,
     found |-> EmptyFn, retries |-> EmptyFn]

\* FileTransferManager.__init__: no outgoing transfer
MonitorAtRest ==
    /\ mn_now = 0
    /\ mn_sending = EmptyFn
    /\ mn_sent = <<>>
    /\ mn_log = NoMonitorLog
    /\ mn_ongoing = EmptyFn
    /\ mn_requests = <<>>
    /\ mn_notified = <<>>

\* the addresses connections are registered under, and the connections
ConnAddrs == {"x", "y"}
MaxConns == 3
Conns == 1..MaxConns

NoConnLog ==
    [exited |-> 0, found |-> EmptyFn, closed |-> {}, cause |-> "None"]

\* ChatNetwork.__init__ and start: no peer, no buffer, no heartbeat entry
ConnAtRest ==
    /\ cn_peers = EmptyFn
    /\ cn_buf = {}
    /\ cn_lh = {}
    /\ cn_sock = [c \in Conns |-> "none"]
    /\ cn_rpc = [c \in Conns |-> "none"]
    /\ cn_addr = [c \in Conns |-> "None"]
    /\ cn_running = TRUE
    /\ cn_log = NoConnLog

\* the receivers of the transfer and its total_chunks
AckReceivers == {"B", "C"}
AckChunks == 2

NoAckLog == [failed |-> {}, requests |-> 0]

\* FileTransferManager.__init__ at every node: no transfer
AckAtRest ==
    /\ ak_rcvs = {}
    /\ ak_pc = "idle"
    /\ ak_next = 0
    /\ ak_acked = {}
    /\ ak_reg = {}
    /\ ak_held = [r \in AckReceivers |-> {}]
    /\ ak_done = [r \in AckReceivers |-> FALSE]
    /\ ak_inbox = [r \in AckReceivers |-> <<>>]
    /\ ak_acks = <<>>
    /\ ak_log = NoAckLog

NoDispatchLog ==
    [handled |-> FALSE, address |-> "None", message |-> "None",
     raised |-> "None", calls |-> <<>>, removed |-> FALSE]

\* ChatNetwork.__init__, ChatRoom.__init__: no peer, no user, no fingerprint
DispatchAtRest ==
    /\ dp_peers = {}
    /\ dp_users = {}
    /\ dp_seen = {}
    /\ dp_log = NoDispatchLog

\* the parts that follow SpecTwice are at rest
LaterAtRest ==
    /\ FrameAtRest
    /\ TimerAtRest
    /\ BeatAtRest
    /\ PresenceAtRest
    /\ MonitorAtRest
    /\ ConnAtRest
    /\ AckAtRest
    /\ DispatchAtRest

FileInit ==
    /\ disk \in Files \cup {NoFile}
    /\ f_users \in [Nodes -> BOOLEAN]
    /\ FileAtRest
    /\ SharedInit
    /\ ChatAtRest
    /\ StopAtRest
    /\ WireAtRest
    /\ InboundAtRest
    /\ SendAtRest
    /\ LaterAtRest
    /\ TwiceAtRest

\* FileTransferManager.send_file
send_file ==
    /\ send_ret = "none"
    /\ IF disk = NoFile
       THEN /\ send_ret' = "false"
            /\ UNCHANGED <<clock, sending_transfers, net, wpc, todo, g>>
       ELSE \E now \in Times(Sender, [net |-> net, clock |-> clock, g |-> g]) :
            LET file_size == disk.size
                file_hash == _calculate_file_hash(Content(disk))
                n == total_chunks(file_size)
                metadata ==
                    Envelope("file_metadata", now.t, Sender, 0, <<>>, <<>>,
                             [file_size |-> file_size, total_chunks |-> n,
                              file_hash |-> file_hash], FALSE)
            IN  /\ clock' = now.st.clock
                /\ net' = _broadcast_message(net, Sender, metadata)
                /\ IF f_users[Sender]
                   THEN /\ sending_transfers' =
                              Put(sending_transfers, TID,
                                  [file_size |-> file_size, total_chunks |-> n,
                                   status |-> "sending", acked_chunks |-> {}])
                        /\ send_ret' = "true"
                        /\ wpc' = "chunks"
                        /\ todo' = Sorted(0..(n - 1))
                        /\ g' = [now.st.g EXCEPT !.src = Content(disk),
                                                 !.meta = @ + 1]
                   ELSE \* the record is deleted again and no worker is started
                        /\ sending_transfers' = Del(sending_transfers, TID)
                        /\ send_ret' = "false"
                        /\ g' = now.st.g
                        /\ UNCHANGED <<wpc, todo>>
    /\ UNCHANGED <<cvars, tvars, wvars, ivars, svars, xvars, nvars>>
    /\ UNCHANGED <<disk, f_users, processed_messages, ongoing_transfers,
                   completed_transfers, dest, note>>

\* FileTransferManager._send_file_chunk(file_path, transfer_id, chunk_index)
\* from st = [net, clock, g]: the states it may leave.  first: the call is
\* the first pass's.
_send_file_chunk(chunk_index, first, st) ==
    LET chunk == ReadChunk(disk, chunk_index)
    IN  IF TID \in DOMAIN sending_transfers /\ chunk # EmptyChunk
        THEN {[net |-> _broadcast_message(
                          st.net, Sender,
                          Envelope("file_chunk", now.t, Sender, chunk_index,
                                   b64encode(chunk), <<>>, NoMeta, first)),
               clock |-> now.st.clock,
               g |-> [now.st.g EXCEPT
                        !.reads = @ \cup {<<chunk_index, chunk>>},
                        !.chunk[chunk_index] =
                            IF f_users[Sender] THEN @ + 1 ELSE @]]
              : now \in Times(Sender, st)}
        ELSE {st}

\* a loop "for chunk_index in list: self._send_file_chunk(...)"
RECURSIVE SendChunks(_, _)
SendChunks(list, st) ==
    IF list = <<>> THEN {st}
    ELSE UNION {SendChunks(Tail(list), st2) :
                  st2 \in _send_file_chunk(Head(list), FALSE, st)}

\* _send_file_chunks: the worker sends the next chunk of the first pass
SendNextChunk ==
    /\ wpc = "chunks"
    /\ todo # <<>>
    /\ \E st \in _send_file_chunk(Head(todo), TRUE,
                                   [net |-> net, clock |-> clock, g |-> g]) :
           /\ net' = st.net
           /\ clock' = st.clock
           /\ g' = st.g
    /\ todo' = Tail(todo)
    /\ UNCHANGED <<cvars, tvars, wvars, ivars, svars, xvars, nvars>>
    /\ UNCHANGED <<disk, f_users, sending_transfers, send_ret, wpc,
                   processed_messages, ongoing_transfers, completed_transfers,
                   dest, note>>

\* the condition of the wait loop of _send_file_chunks: transfer_id in
\* sending_transfers and len(acked_chunks) < total_chunks
WaitCondition(transfers) ==
    /\ TID \in DOMAIN transfers
    /\ Cardinality(transfers[TID].acked_chunks) < transfers[TID].total_chunks

\* _send_file_chunks: the first pass is over and the wait loop is reached;
\* the worker sleeps when its condition holds
FirstPassDone ==
    /\ wpc = "chunks"
    /\ todo = <<>>
    /\ wpc' = "wait"
    /\ g' = [g EXCEPT !.waits = WaitCondition(sending_transfers)]
    /\ UNCHANGED <<cvars, tvars, wvars, ivars, svars, xvars, nvars>>
    /\ UNCHANGED <<disk, f_users, clock, sending_transfers, send_ret, todo, net,
                   processed_messages, ongoing_transfers, completed_transfers,
                   dest, note>>

\* _send_file_chunks: the wait for acknowledgements ends (all chunks are
\* acknowledged, or 30 s have passed) and file_transfer_complete is broadcast
SendComplete ==
    /\ wpc = "wait"
    /\ \E now \in Times(Sender, [net |-> net, clock |-> clock, g |-> g]) :
       LET complete_message ==
               Envelope("file_transfer_complete", now.t, Sender, 0, <<>>, <<>>,
                        NoMeta, FALSE)
       IN  /\ clock' = now.st.clock
           /\ net' = _broadcast_message(net, Sender, complete_message)
           /\ g' = [now.st.g EXCEPT
                      !.complete = IF f_users[Sender] THEN @ + 1 ELSE @]
    /\ wpc' = "done"
    /\ UNCHANGED <<cvars, tvars, wvars, ivars, svars, xvars, nvars>>
    /\ UNCHANGED <<disk, f_users, sending_transfers, send_ret, todo,
                   processed_messages, ongoing_transfers, completed_transfers,
                   dest, note>>

\* _monitor_transfers / _resume_stalled_transfer: the outgoing transfer has
\* been idle for more than transfer_timeout
_resume_stalled_transfer ==
    /\ TID \in DOMAIN sending_transfers
    /\ g.monitor < MaxMonitor
    /\ LET transfer == sending_transfers[TID]
           missing_chunks ==
               Sorted({i \in 0..(transfer.total_chunks - 1) :
                          i \notin transfer.acked_chunks})
       IN  \E st \in SendChunks(Take(missing_chunks, RESUME_CAP),
                                 [net |-> net, clock |-> clock,
                                  g |-> [g EXCEPT !.monitor = @ + 1]]) :
              /\ net' = st.net
              /\ clock' = st.clock
              /\ g' = st.g
    /\ UNCHANGED <<cvars, tvars, wvars, ivars, svars, xvars, nvars>>
    /\ UNCHANGED <<disk, f_users, sending_transfers, send_ret, wpc, todo,
                   processed_messages, ongoing_transfers, completed_transfers,
                   dest, note>>

\* the sender's reader (_handle_peer) takes the next envelope from the
\* receiver and dispatches it: _handle_chunk_acknowledgment, _handle_chunk_request
SenderRead ==
    /\ net["BA"] # <<>>
    /\ LET message == Head(net["BA"])
           id == msg_id(message)
           in_flight == [net EXCEPT !["BA"] = Tail(@)]
       IN  IF id \in processed_messages[Sender]
           THEN /\ net' = in_flight
                /\ UNCHANGED <<processed_messages, sending_transfers, clock, g>>
           ELSE /\ \E P \in AddProcessed(processed_messages[Sender], id) :
                     processed_messages' =
                         [processed_messages EXCEPT ![Sender] = P]
                /\ IF TID \notin DOMAIN sending_transfers
                   THEN /\ net' = in_flight
                        /\ UNCHANGED <<sending_transfers, clock, g>>
                   ELSE IF message.type = "file_chunk_ack"
                   THEN /\ sending_transfers' =
                              [sending_transfers EXCEPT ![TID].acked_chunks =
                                   @ \cup {message.chunk_index}]
                        /\ net' = in_flight
                        /\ UNCHANGED <<clock, g>>
                   ELSE IF message.type = "file_chunk_request"
                   THEN /\ \E st \in SendChunks(message.chunks,
                                                 [net |-> in_flight,
                                                  clock |-> clock, g |-> g]) :
                              /\ net' = st.net
                              /\ clock' = st.clock
                              /\ g' = st.g
                        /\ UNCHANGED sending_transfers
                   ELSE /\ net' = in_flight
                        /\ UNCHANGED <<sending_transfers, clock, g>>
    /\ UNCHANGED <<cvars, tvars, wvars, ivars, svars, xvars, nvars>>
    /\ UNCHANGED <<disk, f_users, send_ret, wpc, todo, ongoing_transfers,
                   completed_transfers, dest, note>>

-----------------------------------------------------------------------------
(* File transfer: the receiver *)

\* _request_missing_chunks: the indices of range(total_chunks) not received
MissingChunks(transfer) ==
    Sorted((0..(transfer.total_chunks - 1)) \ DOMAIN transfer.received_chunks)

\* the file _handle_transfer_complete writes: for i in range(total_chunks),
\* the chunk stored under i when there is one
Assemble(transfer) ==
    LET present == Sorted((0..(transfer.total_chunks - 1))
                              \cap DOMAIN transfer.received_chunks)
    IN  [k \in 1..Len(present) |-> transfer.received_chunks[present[k]]]

\* not (len(received_chunks) != transfer["total_chunks"])
HasAllChunks(transfer) ==
    Cardinality(DOMAIN transfer.received_chunks) = transfer.total_chunks

\* _handle_file_metadata
_handle_file_metadata(message, nw) ==
    /\ ongoing_transfers' =
           Put(ongoing_transfers, TID,
               [file_size |-> message.meta.file_size,
                total_chunks |-> message.meta.total_chunks,
                file_hash |-> message.meta.file_hash,
                received_chunks |-> EmptyFn,
                status |-> "receiving"])
    /\ note' = "receiving"
    /\ g' = [g EXCEPT !.event = "metadata"]
    /\ net' = nw
    /\ UNCHANGED <<clock, completed_transfers, dest>>

\* _handle_file_chunk
_handle_file_chunk(message, nw) ==
    IF TID \notin DOMAIN ongoing_transfers
    THEN /\ note' = None
         /\ g' = [g EXCEPT !.event = "chunk_unknown"]
         /\ net' = nw
         /\ UNCHANGED <<clock, ongoing_transfers, completed_transfers, dest>>
    ELSE \E now \in Times(Receiver, [net |-> nw, clock |-> clock, g |-> g]) :
         LET ack_message ==
                 Envelope("file_chunk_ack", now.t, None, message.chunk_index,
                          <<>>, <<>>, NoMeta, FALSE)
             decoded_data == b64decode(message.data)
             transfer == ongoing_transfers[TID]
         IN  /\ clock' = now.st.clock
             /\ net' = _broadcast_message(nw, Receiver, ack_message)
             /\ ongoing_transfers' =
                    [ongoing_transfers EXCEPT ![TID].received_chunks =
                         Put(@, message.chunk_index, decoded_data)]
             \* progress = len / total * 100 raises ZeroDivisionError when
             \* total_chunks is 0; the handler returns the error notification
             /\ note' = IF transfer.total_chunks = 0 THEN "chunk_error"
                        ELSE "progress"
             /\ g' = [now.st.g EXCEPT
                        !.event = "chunk",
                        !.ack[message.chunk_index] =
                            IF f_users[Receiver] THEN @ + 1 ELSE @]
             /\ UNCHANGED <<completed_transfers, dest>>

\* _handle_transfer_complete
_handle_transfer_complete(message, nw) ==
    IF TID \notin DOMAIN ongoing_transfers
    THEN /\ note' = "unknown_transfer"
         /\ g' = [g EXCEPT !.event = "complete_unknown"]
         /\ net' = nw
         /\ UNCHANGED <<clock, ongoing_transfers, completed_transfers, dest>>
    ELSE LET transfer == ongoing_transfers[TID]
             missing_chunks == MissingChunks(transfer)
         IN
         IF ~HasAllChunks(transfer)
         THEN \* return self._request_missing_chunks(transfer_id) or {...}
              /\ IF missing_chunks # <<>>
                 THEN \E now \in Times(Receiver,
                                        [net |-> nw, clock |-> clock, g |-> g]) :
                      /\ clock' = now.st.clock
                      /\ net' = _broadcast_message(nw, Receiver,
                                    Envelope("file_chunk_request", now.t, None, 0,
                                             <<>>, Take(missing_chunks, REQUEST_CAP),
                                             NoMeta, FALSE))
                      /\ note' = "stalled_requesting"
                      /\ g' = [now.st.g EXCEPT
                                 !.event = "incomplete",
                                 !.request = IF f_users[Receiver] THEN @ + 1 ELSE @]
                 ELSE /\ note' = "incomplete"
                      /\ g' = [g EXCEPT !.event = "incomplete"]
                      /\ net' = nw
                      /\ UNCHANGED clock
              /\ UNCHANGED <<ongoing_transfers, completed_transfers, dest>>
         ELSE LET assembled == Assemble(transfer)
                  calculated_hash == _calculate_file_hash(assembled)
              IN  IF HashMismatch(calculated_hash, transfer.file_hash)
                  THEN \* os.remove(transfer["file_path"])
                       /\ dest' = NoDest
                       /\ note' = "hash_failed"
                       /\ g' = [g EXCEPT !.event = "hash_failed"]
                       /\ net' = nw
                       /\ UNCHANGED <<clock, ongoing_transfers,
                                      completed_transfers>>
                  ELSE /\ dest' = [exists |-> TRUE, content |-> assembled]
                       /\ completed_transfers' =
                              Put(completed_transfers, TID,
                                  [transfer EXCEPT !.status = "completed"])
                       /\ ongoing_transfers' = Del(ongoing_transfers, TID)
                       /\ note' = "received_ok"
                       /\ g' = [g EXCEPT !.event = "completed"]
                       /\ net' = nw
                      /\ UNCHANGED clock

\* the receiver's reader (_handle_peer) takes the next envelope from the
\* sender: duplicate check, then ChatRoom._handle_message and
\* FileTransferManager.handle_file_message
ReceiverRead ==
    /\ net["AB"] # <<>>
    /\ LET message == Head(net["AB"])
           id == msg_id(message)
           in_flight == [net EXCEPT !["AB"] = Tail(@)]
       IN  IF id \in processed_messages[Receiver]
           THEN /\ net' = in_flight
                /\ UNCHANGED <<clock, g, processed_messages, ongoing_transfers,
                               completed_transfers, dest, note>>
           ELSE /\ \E P \in AddProcessed(processed_messages[Receiver], id) :
                     processed_messages' =
                         [processed_messages EXCEPT ![Receiver] = P]
                /\ CASE message.type = "file_metadata" ->
                            _handle_file_metadata(message, in_flight)
                     [] message.type = "file_chunk" ->
                            _handle_file_chunk(message, in_flight)
                     [] message.type = "file_transfer_complete" ->
                            _handle_transfer_complete(message, in_flight)
    /\ UNCHANGED <<cvars, tvars, wvars, ivars, svars, xvars, nvars>>
    /\ UNCHANGED <<disk, f_users, sending_transfers, send_ret, wpc, todo>>

\* _monitor_transfers / _request_missing_chunks: the incoming transfer has
\* been idle for more than transfer_timeout.  The monitor drops the
\* notification _request_missing_chunks returns.
_request_missing_chunks ==
    /\ TID \in DOMAIN ongoing_transfers
    /\ g.monitor < MaxMonitor
    /\ LET missing_chunks == MissingChunks(ongoing_transfers[TID])
       IN  IF missing_chunks # <<>>
           THEN \E now \in Times(Receiver,
                                  [net |-> net, clock |-> clock, g |-> g]) :
                /\ clock' = now.st.clock
                /\ net' = _broadcast_message(net, Receiver,
                              Envelope("file_chunk_request", now.t, None, 0, <<>>,
                                       Take(missing_chunks, REQUEST_CAP),
                                       NoMeta, FALSE))
                /\ g' = [now.st.g EXCEPT
                           !.monitor = @ + 1,
                           !.request = IF f_users[Receiver] THEN @ + 1 ELSE @]
           ELSE /\ g' = [g EXCEPT !.monitor = @ + 1]
                /\ UNCHANGED <<clock, net>>
    /\ UNCHANGED <<cvars, tvars, wvars, ivars, svars, xvars, nvars>>
    /\ UNCHANGED <<disk, f_users, sending_transfers, send_ret, wpc, todo,
                   processed_messages, ongoing_transfers, completed_transfers,
                   dest, note>>

-----------------------------------------------------------------------------
(* File transfer: the environment *)

\* the network layer drops a file_chunk envelope of the first pass
DropChunk ==
    /\ net["AB"] # <<>>
    /\ Head(net["AB"]).type = "file_chunk"
    /\ Head(net["AB"]).first
    /\ g.lost < MaxLoss
    /\ net' = [net EXCEPT !["AB"] = Tail(@)]
    /\ g' = [g EXCEPT !.lost = @ + 1]
    /\ UNCHANGED <<cvars, tvars, wvars, ivars, svars, xvars, nvars>>
    /\ UNCHANGED <<disk, f_users, clock, sending_transfers, send_ret, wpc, todo,
                   processed_messages, ongoing_transfers, completed_transfers,
                   dest, note>>

\* another process overwrites one block of the source file while the
\* transfer runs (the sender reopens the file for every chunk)
ModifyFile ==
    /\ send_ret = "true"
    /\ g.edits < MaxEdits
    /\ \E i \in DOMAIN disk.data : \E s \in Symbols \ {disk.data[i]} :
           disk' = [disk EXCEPT !.data[i] = s]
    /\ g' = [g EXCEPT !.edits = @ + 1]
    /\ UNCHANGED <<cvars, tvars, wvars, ivars, svars, xvars, nvars>>
    /\ UNCHANGED <<f_users, clock, sending_transfers, send_ret, wpc, todo, net,
                   processed_messages, ongoing_transfers, completed_transfers,
                   dest, note>>

FileNext ==
    \/ send_file
    \/ SendNextChunk
    \/ FirstPassDone
    \/ SendComplete
    \/ _resume_stalled_transfer
    \/ SenderRead
    \/ ReceiverRead
    \/ _request_missing_chunks
    \/ DropChunk
    \/ ModifyFile

SpecFile == FileInit /\ [][FileNext]_vars

-----------------------------------------------------------------------------
(* Presence and chat: the two nodes, one handler at a time *)

\* A node calls send_message at most MaxSend times.
MaxSend == 1
\* The 30 s refresh timers fire at most MaxRefresh times in all.
MaxRefresh == 1
\* The heartbeat loops run at most MaxBeat rounds in all.
MaxBeat == 1

\* chat, presence and heartbeat envelopes (a key the envelope does not
\* have reads as None)
ChatEnvelope(type, ts, sender, username, status, content) ==
    [type |-> type, timestamp |-> ts, sender |-> sender, username |-> username,
     status |-> status, content |-> content]

presence_message(n, ts, status) ==
    ChatEnvelope("presence", ts, None, n, status, None)

\* ChatRoom.get_online_users on the table u
get_online_users(u) ==
    {u[a].username : a \in {x \in DOMAIN u : u[x].status = "online"}}

\* the callbacks of node n are given a user_update built from the table u
user_update(log, n, u) ==
    [log EXCEPT ![n].last_update = get_online_users(u),
                ![n].updated = TRUE,
                ![n].gone = @ \/ (/\ h.stopped[Other(n)]
                                  /\ Other(n) \notin get_online_users(u))]

\* the transport as a handler sees it and leaves it; ok: some send returned
\* True; handed: the addresses whose socket was given the envelope
Transport ==
    [peers |-> peers, inbox |-> inbox, eof |-> eof, ok |-> FALSE, handed |-> {}]

\* ChatNetwork._remove_peer: close the socket and forget the address
_remove_peer(st, n, peer_address) ==
    IF peer_address \in st.peers[n]
    THEN [st EXCEPT !.peers[n] = @ \ {peer_address},
                    !.inbox[n][peer_address] = <<>>,
                    !.eof[Node(peer_address)] = @ \cup {Far(n, peer_address)}]
    ELSE st

\* ChatNetwork.send_to_peer: the states it may leave.  A send on a socket
\* whose far end has closed either is accepted by the kernel and lost, or
\* raises and the peer is removed.
send_to_peer(st, n, peer_address, message) ==
    IF peer_address \notin st.peers[n] THEN {st}
    ELSE IF peer_address \in st.eof[n]
    THEN {[st EXCEPT !.ok = TRUE, !.handed = @ \cup {peer_address}],
          _remove_peer(st, n, peer_address)}
    ELSE {[st EXCEPT !.inbox[Node(peer_address)][Far(n, peer_address)] =
                         Append(@, message),
                     !.ok = TRUE,
                     !.handed = @ \cup {peer_address}]}

\* a loop "for peer_address in list(addresses): send_to_peer(peer_address, message)"
RECURSIVE SendAll(_, _, _, _)
SendAll(st, n, addresses, message) ==
    IF addresses = {} THEN {st}
    ELSE LET peer_address == CHOOSE x \in addresses : TRUE
         IN  UNION {SendAll(s2, n, addresses \ {peer_address}, message) :
                      s2 \in send_to_peer(st, n, peer_address, message)}

\* ChatRoom._broadcast_message: the loop runs over the keys of users
BroadcastMessage(st, n, message) ==
    IF DOMAIN users[n] = {} THEN {st}
    ELSE SendAll(st, n, DOMAIN users[n], message)

\* a loop "for peer in list(addresses): self._remove_peer(peer)"
RECURSIVE RemoveAll(_, _, _)
RemoveAll(st, n, addresses) ==
    IF addresses = {} THEN st
    ELSE LET peer == CHOOSE x \in addresses : TRUE
         IN  RemoveAll(_remove_peer(st, n, peer), n, addresses \ {peer})

\* the scenarios: node "A" is the one that sends chat messages and the one
\* that stops; either node dials, accepts, refreshes and sends heartbeats
Chatters == {"A"}
Stoppers == {"A"}

ChatInit ==
    /\ disk = NoFile
    /\ f_users = [n \in Nodes |-> FALSE]
    /\ FileAtRest
    /\ SharedInit
    /\ ChatAtRest
    /\ StopAtRest
    /\ WireAtRest
    /\ InboundAtRest
    /\ SendAtRest
    /\ LaterAtRest
    /\ TwiceAtRest

\* ChatRoom.start: the transport listens, _set_status(ONLINE) is broadcast,
\* the refresh timer is armed
start(n) ==
    /\ ~running[n]
    /\ ~h.stopped[n]
    /\ running' = [running EXCEPT ![n] = TRUE]
    /\ \E st \in BroadcastMessage(Transport, n,
                                   presence_message(n, clock[n] + 1, "online")) :
           /\ peers' = st.peers
           /\ inbox' = st.inbox
           /\ eof' = st.eof
    /\ clock' = [clock EXCEPT ![n] = @ + 1]
    /\ UNCHANGED <<users, readers, backlog, cb, h, processed_messages>>
    /\ UNCHANGED <<fonly, tvars, wvars, ivars, svars, xvars, nvars>>

\* the spellings of this machine's address that a caller may pass
Hosts == {"localhost", "127.0.0.1"}

\* self.network.port: the listen ports are named after their nodes
port(n) == n

\* a guard that knows this machine by one name only
SelfByName(peer_host, peer_port, own_port) ==
    peer_host = "localhost" /\ peer_port = own_port

\* if peer_host in ("localhost", "127.0.0.1") and peer_port == self.network.port
IsSelf(peer_host, peer_port, own_port) ==
    peer_host \in {"localhost", "127.0.0.1"} /\ peer_port = own_port

\* a dial that forgets the socket
NotRegistered(st, n, peer_address) == st

\* self.peers[(peer_host, peer_port)] = sock
Register(st, n, peer_address) ==
    [st EXCEPT !.peers[n] = @ \cup {peer_address}]

\* ChatRoom.connect_to_peer(peer_host, peer_port) on node n: refuse the
\* node's own listen port; otherwise dial the node m that listens on
\* peer_port, send it a presence envelope directly, then _refresh_peer_list.
\* Both spellings of the host lead to the same listener and are kept under
\* one key, as each node dials once.
connect_to_peer(n, peer_host, peer_port) ==
    /\ running[n]
    /\ h.dial[n] = "none"
    /\ LET m == peer_port
           peer_address == Listen(m)
           called == [h EXCEPT !.self[n] = (peer_port = port(n))]
       IN  IF IsSelf(peer_host, peer_port, port(n))
           THEN \* return False before anything else
                /\ h' = [called EXCEPT !.dial[n] = "refused"]
                /\ UNCHANGED <<peers, inbox, eof, readers, backlog, cb, clock>>
           ELSE IF ~running[m]
           THEN \* connection refused: network.connect_to_peer returns False
                /\ h' = [called EXCEPT !.dial[n] = "failed"]
                /\ UNCHANGED <<peers, inbox, eof, readers, backlog, cb, clock>>
           ELSE LET connected == Register(Transport, n, peer_address)
                IN  \E s1 \in send_to_peer(connected, n, peer_address,
                                   presence_message(n, clock[n] + 1, "online")) :
                    \E s2 \in BroadcastMessage(s1, n,
                                   presence_message(n, clock[n] + 2, "online")) :
                        /\ peers' = s2.peers
                        /\ inbox' = s2.inbox
                        /\ eof' = s2.eof
                        /\ readers' = [readers EXCEPT ![n] = @ \cup {peer_address}]
                        /\ backlog' = [backlog EXCEPT ![m] = @ \cup {Ephemeral(n)}]
                        /\ cb' = user_update(cb, n, users[n])
                        /\ clock' = [clock EXCEPT ![n] = @ + 2]
                        /\ h' = [called EXCEPT !.dial[n] = "ok"]
    /\ UNCHANGED <<running, users, processed_messages>>
    /\ UNCHANGED <<fonly, tvars, wvars, ivars, svars, xvars, nvars>>

\* ChatNetwork._accept_connections: one round of the acceptor of node n
_accept_connections(n) ==
    /\ running[n]
    /\ \E address \in backlog[n] :
           /\ peers' = [peers EXCEPT ![n] = @ \cup {address}]
           /\ readers' = [readers EXCEPT ![n] = @ \cup {address}]
           /\ backlog' = [backlog EXCEPT ![n] = @ \ {address}]
    /\ UNCHANGED <<running, users, inbox, eof, cb, h>>
    /\ UNCHANGED <<fonly, shared, tvars, wvars, ivars, svars, xvars, nvars>>

\* ChatRoom.send_message("hello")
send_message(n) ==
    /\ running[n]
    /\ h.sent[n] < MaxSend
    /\ LET chat_message ==
               ChatEnvelope("chat", clock[n] + 1, n, None, None, "hello")
       IN  \E st \in BroadcastMessage(Transport, n, chat_message) :
               /\ peers' = st.peers
               /\ inbox' = st.inbox
               /\ eof' = st.eof
               /\ h' = [h EXCEPT !.sent[n] = @ + 1,
                                 !.bcast[n] = [done |-> TRUE,
                                               peers |-> peers[n],
                                               handed |-> st.handed]]
    /\ clock' = [clock EXCEPT ![n] = @ + 1]
    /\ UNCHANGED <<running, users, readers, backlog, cb, processed_messages>>
    /\ UNCHANGED <<fonly, tvars, wvars, ivars, svars, xvars, nvars>>

\* ChatRoom._refresh_peer_list, when the 30 s timer of node n fires
_refresh_peer_list(n) ==
    /\ running[n]
    /\ h.refresh < MaxRefresh
    /\ \E st \in BroadcastMessage(Transport, n,
                                   presence_message(n, clock[n] + 1, "online")) :
           /\ peers' = st.peers
           /\ inbox' = st.inbox
           /\ eof' = st.eof
    /\ cb' = user_update(cb, n, users[n])
    /\ clock' = [clock EXCEPT ![n] = @ + 1]
    /\ h' = [h EXCEPT !.refresh = @ + 1]
    /\ UNCHANGED <<running, users, readers, backlog, processed_messages>>
    /\ UNCHANGED <<fonly, tvars, wvars, ivars, svars, xvars, nvars>>

\* ChatNetwork._heartbeat_loop: one round on node n, _send_heartbeats then
\* _check_connections.  Only a peer whose far end is gone and whose socket
\* has nothing left to read can have been silent for connection_timeout.
_heartbeat_loop(n) ==
    /\ running[n]
    /\ h.beats < MaxBeat
    /\ LET heartbeat ==
               ChatEnvelope("heartbeat", clock[n] + 1, None, None, None, None)
       IN  \E st \in SendAll(Transport, n, peers[n], heartbeat) :
           \E silent \in SUBSET {a \in st.peers[n] \cap st.eof[n] :
                                     st.inbox[n][a] = <<>>} :
           LET s2 == RemoveAll(st, n, silent)
           IN  /\ peers' = s2.peers
               /\ inbox' = s2.inbox
               /\ eof' = s2.eof
    /\ clock' = [clock EXCEPT ![n] = @ + 1]
    /\ h' = [h EXCEPT !.beats = @ + 1]
    /\ UNCHANGED <<running, users, readers, backlog, cb, processed_messages>>
    /\ UNCHANGED <<fonly, tvars, wvars, ivars, svars, xvars, nvars>>

\* ChatRoom._handle_presence_update
_handle_presence_update(n, sender_address, message) ==
    LET table == Put(users[n], sender_address,
                     [username |-> message.username, status |-> message.status])
    IN  /\ users' = [users EXCEPT ![n] = table]
        /\ cb' = user_update(cb, n, table)

\* ChatRoom._handle_message: dispatch on the type of the envelope
_handle_message(n, sender_address, message) ==
    CASE message.type = "heartbeat" -> UNCHANGED <<users, cb>>
      [] message.type = "chat" ->
             /\ cb' = [cb EXCEPT ![n].chat = @ + 1]
             /\ UNCHANGED users
      [] message.type = "presence" ->
             _handle_presence_update(n, sender_address, message)

\* ChatNetwork._handle_peer: the reader of node n for address takes the next
\* envelope, drops it when its fingerprint has been seen, else calls back
_handle_peer(n, address) ==
    /\ running[n]
    /\ address \in readers[n]
    /\ address \in peers[n]
    /\ inbox[n][address] # <<>>
    /\ LET message == Head(inbox[n][address])
           id == msg_id(message)
       IN  /\ inbox' = [inbox EXCEPT ![n][address] = Tail(@)]
           /\ IF id \in processed_messages[n]
              THEN UNCHANGED <<processed_messages, users, cb>>
              ELSE /\ \E P \in AddProcessed(processed_messages[n], id) :
                        processed_messages' = [processed_messages EXCEPT ![n] = P]
                   /\ _handle_message(n, address, message)
    /\ UNCHANGED <<running, peers, eof, readers, backlog, h, clock>>
    /\ UNCHANGED <<fonly, tvars, wvars, ivars, svars, xvars, nvars>>

\* ChatNetwork._handle_peer: the loop ends (running is False, recv returned
\* no data after the far end closed, or recv raised on the socket this node
\* closed) and the worker calls _remove_peer(address)
ReaderExit(n, address) ==
    /\ address \in readers[n]
    /\ \/ ~running[n]
       \/ address \notin peers[n]
       \/ inbox[n][address] = <<>> /\ address \in eof[n]
    /\ LET st == _remove_peer(Transport, n, address)
       IN  /\ peers' = st.peers
           /\ inbox' = st.inbox
           /\ eof' = st.eof
    /\ readers' = [readers EXCEPT ![n] = @ \ {address}]
    /\ UNCHANGED <<running, users, backlog, cb, h>>
    /\ UNCHANGED <<fonly, shared, tvars, wvars, ivars, svars, xvars, nvars>>

\* ChatRoom.stop: cancel the timer, _set_status(OFFLINE), then
\* ChatNetwork.stop: running = False, close every peer socket, clear the
\* map, close the listen socket
stop(n) ==
    /\ running[n]
    /\ \E st \in BroadcastMessage(Transport, n,
                                   presence_message(n, clock[n] + 1, "offline")) :
           /\ peers' = [st.peers EXCEPT ![n] = {}]
           /\ inbox' = [st.inbox EXCEPT ![n] = [a \in Addrs(n) |-> <<>>]]
           /\ eof' = [st.eof EXCEPT ![Other(n)] =
                          @ \cup {Far(n, a) : a \in st.peers[n] \cup backlog[n]}]
           /\ h' = [h EXCEPT !.stopped[n] = TRUE,
                             !.stop[n] = [done |-> TRUE, peers |-> peers[n],
                                          handed |-> st.handed]]
    /\ running' = [running EXCEPT ![n] = FALSE]
    /\ backlog' = [backlog EXCEPT ![n] = {}]
    /\ clock' = [clock EXCEPT ![n] = @ + 1]
    /\ UNCHANGED <<users, readers, cb, processed_messages>>
    /\ UNCHANGED <<fonly, tvars, wvars, ivars, svars, xvars, nvars>>

ChatNext ==
    \/ \E n \in Nodes : start(n)
    \/ \E n \in Nodes : \E peer_host \in Hosts : \E peer_port \in Nodes :
           connect_to_peer(n, peer_host, peer_port)
    \/ \E n \in Nodes : _accept_connections(n)
    \/ \E n \in Chatters : send_message(n)
    \/ \E n \in Nodes : _refresh_peer_list(n)
    \/ \E n \in Nodes : _heartbeat_loop(n)
    \/ \E n \in Nodes : \E address \in Addrs(n) : _handle_peer(n, address)
    \/ \E n \in Nodes : \E address \in Addrs(n) : ReaderExit(n, address)
    \/ \E n \in Stoppers : stop(n)

SpecChat == ChatInit /\ [][ChatNext]_vars

-----------------------------------------------------------------------------
(* ChatNetwork.stop against the workers of one transport, step by step *)

\* ChatNetwork.start has run: the transport listens; it may hold the
\* connected peer "p1", read by a _handle_peer worker; the connection "p2"
\* may wait at the listen socket; the application may dial "p3"
StopInit ==
    /\ disk = NoFile
    /\ f_users = [n \in Nodes |-> FALSE]
    /\ FileAtRest
    /\ SharedInit
    /\ ChatAtRest
    /\ WireAtRest
    /\ InboundAtRest
    /\ SendAtRest
    /\ LaterAtRest
    /\ TwiceAtRest
    /\ net_running = TRUE
    /\ server_socket = "listening"
    /\ net_peers \in {{}, {"p1"}}
    /\ registered = net_peers
    /\ closed = {}
    /\ pending \in {{}, {"p2"}}
    /\ held = [w \in {"accept", "dial"} |-> None]
    /\ it = [size |-> 0, seen |-> {}]
    /\ pc = [w \in Workers |->
               CASE w = "stop" -> "call"
                 [] w = "accept" -> "while"
                 [] w = "beat" -> "while"
                 [] w = "dial" -> "call"
                 [] w = "p1" -> IF "p1" \in net_peers THEN "while" ELSE "none"
                 [] OTHER -> "none"]

\* stop: self.running = False
StopSignal ==
    /\ pc["stop"] = "call"
    /\ net_running' = FALSE
    /\ pc' = [pc EXCEPT !["stop"] = "for"]
    /\ UNCHANGED <<server_socket, net_peers, registered, closed, pending, held, it>>
    /\ UNCHANGED <<fonly, shared, cvars, wvars, ivars, svars, xvars, nvars>>

\* stop: "for peer_socket in self.peers.values()" creates the iterator
StopIterate ==
    /\ pc["stop"] = "for"
    /\ it' = [size |-> Cardinality(net_peers), seen |-> {}]
    /\ pc' = [pc EXCEPT !["stop"] = "next"]
    /\ UNCHANGED <<net_running, server_socket, net_peers, registered, closed,
                   pending, held>>
    /\ UNCHANGED <<fonly, shared, cvars, wvars, ivars, svars, xvars, nvars>>

\* stop: the iterator is asked for the next socket.  A dict whose size has
\* changed since the iterator was created raises RuntimeError, which stop
\* does not catch; else the next socket is closed, or the loop ends.
StopNextSocket ==
    /\ pc["stop"] = "next"
    /\ IF Cardinality(net_peers) # it.size
       THEN /\ pc' = [pc EXCEPT !["stop"] = "raised"]
            /\ UNCHANGED <<closed, it>>
       ELSE IF net_peers \ it.seen = {}
       THEN /\ pc' = [pc EXCEPT !["stop"] = "clear"]
            /\ UNCHANGED <<closed, it>>
       ELSE \E address \in net_peers \ it.seen :
                /\ closed' = closed \cup {address}
                /\ it' = [it EXCEPT !.seen = @ \cup {address}]
                /\ UNCHANGED pc
    /\ UNCHANGED <<net_running, server_socket, net_peers, registered, pending, held>>
    /\ UNCHANGED <<fonly, shared, cvars, wvars, ivars, svars, xvars, nvars>>

\* stop: self.peers.clear()
StopClear ==
    /\ pc["stop"] = "clear"
    /\ net_peers' = {}
    /\ pc' = [pc EXCEPT !["stop"] = "listen"]
    /\ UNCHANGED <<net_running, server_socket, registered, closed, pending, held, it>>
    /\ UNCHANGED <<fonly, shared, cvars, wvars, ivars, svars, xvars, nvars>>

\* stop: self.server_socket.close(), and stop returns
StopCloseListen ==
    /\ pc["stop"] = "listen"
    /\ server_socket' = "closed"
    /\ pending' = {}
    /\ pc' = [pc EXCEPT !["stop"] = "returned"]
    /\ UNCHANGED <<net_running, net_peers, registered, closed, held, it>>
    /\ UNCHANGED <<fonly, shared, cvars, wvars, ivars, svars, xvars, nvars>>

\* _accept_connections: "while self.running"
AcceptorTest ==
    /\ pc["accept"] = "while"
    /\ pc' = [pc EXCEPT !["accept"] = IF net_running THEN "accept" ELSE "exited"]
    /\ UNCHANGED <<net_running, server_socket, net_peers, registered, closed,
                   pending, held, it>>
    /\ UNCHANGED <<fonly, shared, cvars, wvars, ivars, svars, xvars, nvars>>

\* _accept_connections: self.server_socket.accept() returns a connection
AcceptorAccept ==
    /\ pc["accept"] = "accept"
    /\ server_socket = "listening"
    /\ \E address \in pending :
           /\ held' = [held EXCEPT !["accept"] = address]
           /\ pending' = pending \ {address}
    /\ pc' = [pc EXCEPT !["accept"] = "register"]
    /\ UNCHANGED <<net_running, server_socket, net_peers, registered, closed, it>>
    /\ UNCHANGED <<fonly, shared, cvars, wvars, ivars, svars, xvars, nvars>>

\* _accept_connections: accept() on the closed listen socket raises; the
\* except clause swallows the error (a platform that leaves the worker
\* blocked in accept() instead never takes this step)
AcceptorRaise ==
    /\ pc["accept"] = "accept"
    /\ server_socket = "closed"
    /\ pc' = [pc EXCEPT !["accept"] = "while"]
    /\ UNCHANGED <<net_running, server_socket, net_peers, registered, closed,
                   pending, held, it>>
    /\ UNCHANGED <<fonly, shared, cvars, wvars, ivars, svars, xvars, nvars>>

\* _accept_connections: self.peers[address] = client_sock
AcceptorRegister ==
    /\ pc["accept"] = "register"
    /\ net_peers' = net_peers \cup {held["accept"]}
    /\ registered' = registered \cup {held["accept"]}
    /\ pc' = [pc EXCEPT !["accept"] = "spawn"]
    /\ UNCHANGED <<net_running, server_socket, closed, pending, held, it>>
    /\ UNCHANGED <<fonly, shared, cvars, wvars, ivars, svars, xvars, nvars>>

\* _accept_connections: the _handle_peer worker of the connection is started
AcceptorSpawn ==
    /\ pc["accept"] = "spawn"
    /\ pc' = [pc EXCEPT !["accept"] = "while", ![held["accept"]] = "while"]
    /\ held' = [held EXCEPT !["accept"] = None]
    /\ UNCHANGED <<net_running, server_socket, net_peers, registered, closed,
                   pending, it>>
    /\ UNCHANGED <<fonly, shared, cvars, wvars, ivars, svars, xvars, nvars>>

\* connect_to_peer, called before stop is: sock.connect((peer_host, peer_port))
DialConnect ==
    /\ pc["dial"] = "call"
    /\ pc["stop"] = "call"
    /\ held' = [held EXCEPT !["dial"] = "p3"]
    /\ pc' = [pc EXCEPT !["dial"] = "register"]
    /\ UNCHANGED <<net_running, server_socket, net_peers, registered, closed,
                   pending, it>>
    /\ UNCHANGED <<fonly, shared, cvars, wvars, ivars, svars, xvars, nvars>>

\* connect_to_peer: self.peers[(peer_host, peer_port)] = sock
DialRegister ==
    /\ pc["dial"] = "register"
    /\ net_peers' = net_peers \cup {held["dial"]}
    /\ registered' = registered \cup {held["dial"]}
    /\ pc' = [pc EXCEPT !["dial"] = "spawn"]
    /\ UNCHANGED <<net_running, server_socket, closed, pending, held, it>>
    /\ UNCHANGED <<fonly, shared, cvars, wvars, ivars, svars, xvars, nvars>>

\* connect_to_peer: the _handle_peer worker is started; return True
DialSpawn ==
    /\ pc["dial"] = "spawn"
    /\ pc' = [pc EXCEPT !["dial"] = "done", ![held["dial"]] = "while"]
    /\ held' = [held EXCEPT !["dial"] = None]
    /\ UNCHANGED <<net_running, server_socket, net_peers, registered, closed,
                   pending, it>>
    /\ UNCHANGED <<fonly, shared, cvars, wvars, ivars, svars, xvars, nvars>>

\* _handle_peer: "while self.running"
ReaderTest(address) ==
    /\ pc[address] = "while"
    /\ pc' = [pc EXCEPT ![address] = IF net_running THEN "recv" ELSE "remove"]
    /\ UNCHANGED <<net_running, server_socket, net_peers, registered, closed,
                   pending, held, it>>
    /\ UNCHANGED <<fonly, shared, cvars, wvars, ivars, svars, xvars, nvars>>

\* _handle_peer: recv returns data, which is processed (only on an open
\* socket), or the loop is left: no data, an error, a failed liveness check
ReaderRecv(address) ==
    /\ pc[address] = "recv"
    /\ \/ /\ address \notin closed
          /\ pc' = [pc EXCEPT ![address] = "while"]
       \/ pc' = [pc EXCEPT ![address] = "remove"]
    /\ UNCHANGED <<net_running, server_socket, net_peers, registered, closed,
                   pending, held, it>>
    /\ UNCHANGED <<fonly, shared, cvars, wvars, ivars, svars, xvars, nvars>>

\* _handle_peer: self._remove_peer(address), and the worker ends
ReaderRemove(address) ==
    /\ pc[address] = "remove"
    /\ IF address \in net_peers
       THEN /\ closed' = closed \cup {address}
            /\ net_peers' = net_peers \ {address}
       ELSE UNCHANGED <<closed, net_peers>>
    /\ pc' = [pc EXCEPT ![address] = "exited"]
    /\ UNCHANGED <<net_running, server_socket, registered, pending, held, it>>
    /\ UNCHANGED <<fonly, shared, cvars, wvars, ivars, svars, xvars, nvars>>

\* _heartbeat_loop: "while self.running"
HeartbeatTest ==
    /\ pc["beat"] = "while"
    /\ pc' = [pc EXCEPT !["beat"] = IF net_running THEN "round" ELSE "exited"]
    /\ UNCHANGED <<net_running, server_socket, net_peers, registered, closed,
                   pending, held, it>>
    /\ UNCHANGED <<fonly, shared, cvars, wvars, ivars, svars, xvars, nvars>>

\* _heartbeat_loop: _send_heartbeats and _check_connections remove the
\* peers whose send raised or that have been silent; then the worker sleeps
HeartbeatRound ==
    /\ pc["beat"] = "round"
    /\ \E dead \in SUBSET net_peers :
           /\ net_peers' = net_peers \ dead
           /\ closed' = closed \cup dead
    /\ pc' = [pc EXCEPT !["beat"] = "while"]
    /\ UNCHANGED <<net_running, server_socket, registered, pending, held, it>>
    /\ UNCHANGED <<fonly, shared, cvars, wvars, ivars, svars, xvars, nvars>>

StopNext ==
    \/ StopSignal
    \/ StopIterate
    \/ StopNextSocket
    \/ StopClear
    \/ StopCloseListen
    \/ AcceptorTest
    \/ AcceptorAccept
    \/ AcceptorRaise
    \/ AcceptorRegister
    \/ AcceptorSpawn
    \/ DialConnect
    \/ DialRegister
    \/ DialSpawn
    \/ \E address \in Sockets : ReaderTest(address)
    \/ \E address \in Sockets : ReaderRecv(address)
    \/ \E address \in Sockets : ReaderRemove(address)
    \/ HeartbeatTest
    \/ HeartbeatRound

SpecStop == StopInit /\ [][StopNext]_vars

-----------------------------------------------------------------------------
(* The bytes one peer socket is given by the workers that send to it *)

\* a worker hands send_to_peer at most MaxEnvelopes envelopes
MaxEnvelopes == 2
\* json.dumps(message) is BodyLen bytes long
BodyLen == 2
\* the socket's send buffer holds SndBuf bytes
SndBuf == 4

\* json.dumps(message) + "\n", as bytes
Frame(message) == Append([i \in 1..BodyLen |-> <<message, i>>], "\n")

WireInit ==
    /\ disk = NoFile
    /\ f_users = [n \in Nodes |-> FALSE]
    /\ FileAtRest
    /\ SharedInit
    /\ ChatAtRest
    /\ StopAtRest
    /\ InboundAtRest
    /\ SendAtRest
    /\ LaterAtRest
    /\ TwiceAtRest
    /\ stream = <<>>
    /\ sndbuf = 0
    /\ peer_up = TRUE
    /\ calls = [w \in Senders |-> 0]
    /\ rets = {}

\* send_to_peer(peer_address, message) by worker w.  socket.send copies as
\* many bytes as the send buffer has room for and returns their number,
\* which send_to_peer does not look at; with no room within the socket's
\* timeout it raises and the peer is removed.
WireSend(w) ==
    /\ calls[w] < MaxEnvelopes
    /\ LET message == <<w, calls[w] + 1>>
           data == Frame(message)
           room == SndBuf - sndbuf
           n == Min(Len(data), room)
       IN  IF ~peer_up
           THEN /\ rets' = rets \cup {<<message, FALSE>>}
                /\ UNCHANGED <<stream, sndbuf, peer_up>>
           ELSE IF room = 0
           THEN /\ peer_up' = FALSE
                /\ rets' = rets \cup {<<message, FALSE>>}
                /\ UNCHANGED <<stream, sndbuf>>
           ELSE /\ stream' = stream \o SubSeq(data, 1, n)
                /\ sndbuf' = sndbuf + n
                /\ rets' = rets \cup {<<message, TRUE>>}
                /\ UNCHANGED peer_up
    /\ calls' = [calls EXCEPT ![w] = @ + 1]
    /\ UNCHANGED <<fonly, shared, cvars, tvars, ivars, svars, xvars, nvars>>

\* the far end acknowledges bytes, which leave the send buffer
WireDrain ==
    /\ sndbuf > 0
    /\ \E k \in 1..sndbuf : sndbuf' = sndbuf - k
    /\ UNCHANGED <<stream, peer_up, calls, rets>>
    /\ UNCHANGED <<fonly, shared, cvars, tvars, ivars, svars, xvars, nvars>>

WireNext ==
    \/ \E w \in Senders : WireSend(w)
    \/ WireDrain

SpecWire == WireInit /\ [][WireNext]_vars

-----------------------------------------------------------------------------
(* The readers of one transport, statement by statement, and what the chat *)
(* layer does with what they pass on (node "A", peers "p1" and "p2")       *)

\* The peers send at most MaxInbound envelopes in all.
MaxInbound == 2

\* ChatRoom.MAX_HISTORY
MAX_HISTORY == 100

\* the envelopes a peer may send: two different chat envelopes that carry
\* the same timestamp and sender, a heartbeat and a presence envelope that
\* carry that timestamp and no sender, and a system envelope
Inbound ==
    {ChatEnvelope("chat", 1, "B", None, None, "hello"),
     ChatEnvelope("chat", 1, "B", None, None, "bye"),
     ChatEnvelope("heartbeat", 1, None, None, None, None),
     ChatEnvelope("presence", 1, None, "B", "online", None),
     ChatEnvelope("system", 2, None, None, None, "notice")}

\* k envelopes of an earlier peer that have been read: their fingerprints,
\* and the history they left
OldIds(k) == {<<i, "old">> : i \in 1..k}
OldHistory(k) == [i \in 1..k |-> ChatEnvelope("chat", i, "old", None, None, "m")]

\* the transport has read 0, message_ttl - 1 or message_ttl envelopes so far
Prefill == {0, message_ttl - 1, message_ttl}

NoEnvelope == ChatEnvelope(None, 0, None, None, None, None)

InboundInit ==
    /\ disk = NoFile
    /\ f_users = [n \in Nodes |-> FALSE]
    /\ FileAtRest
    /\ ChatAtRest
    /\ StopAtRest
    /\ WireAtRest
    /\ SendAtRest
    /\ LaterAtRest
    /\ TwiceAtRest
    /\ clock = [n \in Nodes |-> 0]
    /\ \E k \in Prefill :
           /\ processed_messages = [n \in Nodes |-> IF n = "A" THEN OldIds(k) ELSE {}]
           /\ message_history = OldHistory(k)
           /\ appended = OldHistory(k)
    /\ in_pc = [r \in InPeers |-> "recv"]
    /\ in_msg = [r \in InPeers |-> NoEnvelope]
    /\ last_heartbeat = [r \in InPeers |-> 0]
    /\ on_message = {}
    /\ notified = {}
    /\ ig = NoInboundHist

\* the mutant of Refresh: the time of the last data is left as it was
NoRefresh(lh, address, now) == lh

\* _handle_peer: self.last_heartbeat[address] = time.time()
Refresh(lh, address, now) == [lh EXCEPT ![address] = now]

\* _handle_peer: recv returns the bytes of one envelope, last_heartbeat is
\* refreshed, the line is split off and parsed
Recv(r) ==
    /\ in_pc[r] = "recv"
    /\ ig.arrived < MaxInbound
    /\ \E message \in Inbound :
           /\ in_msg' = [in_msg EXCEPT ![r] = message]
           /\ ig' = [ig EXCEPT !.arrived = @ + 1,
                               !.taken = @ \cup {message},
                               !.at[r] = clock["A"] + 1]
    /\ clock' = [clock EXCEPT !["A"] = @ + 1]
    /\ last_heartbeat' = Refresh(last_heartbeat, r, clock["A"] + 1)
    /\ in_pc' = [in_pc EXCEPT ![r] = "check"]
    /\ UNCHANGED <<processed_messages, on_message, message_history, appended,
                   notified>>
    /\ UNCHANGED <<fonly, cvars, tvars, wvars, svars, xvars, nvars>>

\* _handle_peer: "if msg_id in self.processed_messages: continue"
Check(r) ==
    /\ in_pc[r] = "check"
    /\ IF msg_id(in_msg[r]) \in processed_messages["A"]
       THEN /\ in_pc' = [in_pc EXCEPT ![r] = "recv"]
            /\ in_msg' = [in_msg EXCEPT ![r] = NoEnvelope]
       ELSE /\ in_pc' = [in_pc EXCEPT ![r] = "add"]
            /\ UNCHANGED in_msg
    /\ UNCHANGED <<shared, last_heartbeat, on_message, message_history,
                   appended, notified, ig>>
    /\ UNCHANGED <<fonly, cvars, tvars, wvars, svars, xvars, nvars>>

\* _handle_peer: self.processed_messages.add(msg_id)
Add(r) ==
    /\ in_pc[r] = "add"
    /\ processed_messages' =
           [processed_messages EXCEPT !["A"] = @ \cup {msg_id(in_msg[r])}]
    /\ ig' = [ig EXCEPT !.peak =
                 IF Cardinality(processed_messages'["A"]) > @
                 THEN Cardinality(processed_messages'["A"]) ELSE @]
    /\ in_pc' = [in_pc EXCEPT ![r] = "evict"]
    /\ UNCHANGED <<clock, in_msg, last_heartbeat, on_message, message_history,
                   appended, notified>>
    /\ UNCHANGED <<fonly, cvars, tvars, wvars, svars, xvars, nvars>>

\* the mutant of TooMany: the set is let grow one fingerprint further
TooManyByTwo(P) == Cardinality(P) > message_ttl + 1

\* _handle_peer: "if len(self.processed_messages) > self.message_ttl"
TooMany(P) == Cardinality(P) > message_ttl

\* what set.pop() may remove: any element.  No envelope that arrives
\* carries a fingerprint of the earlier peer, so which of those goes makes
\* no difference: the least stands for them all.
PopChoices(P) ==
    LET old == {x \in P : x[2] = "old"}
    IN  (P \ old) \cup
        (IF old = {} THEN {}
         ELSE {CHOOSE x \in old : \A y \in old : x[1] <= y[1]})

\* _handle_peer: the eviction after the add
Evict(r) ==
    /\ in_pc[r] = "evict"
    /\ IF TooMany(processed_messages["A"])
       THEN /\ \E x \in PopChoices(processed_messages["A"]) :
                  processed_messages' =
                      [processed_messages EXCEPT !["A"] = @ \ {x}]
            /\ ig' = [ig EXCEPT !.evicted = @ + 1]
       ELSE UNCHANGED <<processed_messages, ig>>
    /\ in_pc' = [in_pc EXCEPT ![r] = "call"]
    /\ UNCHANGED <<clock, in_msg, last_heartbeat, on_message, message_history,
                   appended, notified>>
    /\ UNCHANGED <<fonly, cvars, tvars, wvars, svars, xvars, nvars>>

\* the mutant of _add_to_history: the newest entry is the one dropped
DropNewest(history, message) ==
    IF Len(history) + 1 > MAX_HISTORY THEN history ELSE Append(history, message)

\* ChatRoom._add_to_history
_add_to_history(history, message) ==
    LET longer == Append(history, message)
    IN  IF Len(longer) > MAX_HISTORY THEN Tail(longer) ELSE longer

\* _handle_peer: self.message_callback(address, message), which is
\* ChatRoom._handle_message: a heartbeat is ignored; a chat or system
\* envelope goes to the history and to the registered callbacks; a presence
\* envelope makes a user_update for the registered callbacks
Call(r) ==
    /\ in_pc[r] = "call"
    /\ on_message' = on_message \cup {<<r, in_msg[r]>>}
    /\ LET message == in_msg[r]
       IN  CASE message.type = "heartbeat" ->
                    UNCHANGED <<message_history, appended, notified>>
             [] message.type \in {"chat", "system"} ->
                    /\ message_history' = _add_to_history(message_history, message)
                    /\ appended' = Append(appended, message)
                    /\ notified' = notified \cup {message}
             [] message.type = "presence" ->
                    /\ notified' = notified \cup
                                      {ChatEnvelope("user_update", None, None,
                                                    message.username,
                                                    message.status, None)}
                    /\ UNCHANGED <<message_history, appended>>
    /\ in_pc' = [in_pc EXCEPT ![r] = "recv"]
    /\ in_msg' = [in_msg EXCEPT ![r] = NoEnvelope]
    /\ UNCHANGED <<shared, last_heartbeat, ig>>
    /\ UNCHANGED <<fonly, cvars, tvars, wvars, svars, xvars, nvars>>

\* ChatRoom.send_message on this node: the envelope is appended to the
\* history before it is broadcast
LocalSend ==
    /\ ig.sent < MaxSend
    /\ LET chat_message ==
               ChatEnvelope("chat", clock["A"] + 1, "A", None, None, "hello")
       IN  /\ message_history' = _add_to_history(message_history, chat_message)
           /\ appended' = Append(appended, chat_message)
    /\ clock' = [clock EXCEPT !["A"] = @ + 1]
    /\ ig' = [ig EXCEPT !.sent = @ + 1]
    /\ UNCHANGED <<processed_messages, in_pc, in_msg, last_heartbeat,
                   on_message, notified>>
    /\ UNCHANGED <<fonly, cvars, tvars, wvars, svars, xvars, nvars>>

InboundNext ==
    \/ \E r \in InPeers : Recv(r)
    \/ \E r \in InPeers : Check(r)
    \/ \E r \in InPeers : Add(r)
    \/ \E r \in InPeers : Evict(r)
    \/ \E r \in InPeers : Call(r)
    \/ LocalSend

SpecInbound == InboundInit /\ [][InboundNext]_vars

-----------------------------------------------------------------------------
(* File transfer: properties *)

Completed == TID \in DOMAIN completed_transfers

\* nothing is in flight and the chunking worker has sent file_transfer_complete
FileQuiet ==
    /\ send_ret = "true"
    /\ wpc = "done"
    /\ net["AB"] = <<>>
    /\ net["BA"] = <<>>

\* C2: whenever the receiver has moved the transfer into completed_transfers,
\* the file it assembled is, in index order 0..total_chunks-1, made of chunks
\* the sender read from the source file at those indices, it equals the
\* content of the source file that send_file hashed, and has the same MD5.
C2_AssembledEqualsSource ==
    Completed =>
        /\ dest.exists
        /\ Len(dest.content) = completed_transfers[TID].total_chunks
        /\ \A k \in 1..Len(dest.content) : <<k - 1, dest.content[k]>> \in g.reads
        /\ dest.content = g.src
        /\ _calculate_file_hash(dest.content) = _calculate_file_hash(g.src)

\* C2 witness: a file of MaxChunks chunks is completed although a chunk of
\* the first pass was lost and had to be sent again
C2_Witness ==
    /\ Completed
    /\ completed_transfers[TID].total_chunks = MaxChunks
    /\ g.lost > 0

\* C3: an incoming transfer is in completed_transfers only if every index
\* 0..total_chunks-1 was present when file_transfer_complete was handled and
\* the MD5 of the assembled file equals the file_hash of its file_metadata.
C3_CompletedOnlyIfVerified ==
    \A tid \in DOMAIN completed_transfers :
        LET transfer == completed_transfers[tid]
        IN  /\ (0..(transfer.total_chunks - 1)) \subseteq
                    DOMAIN transfer.received_chunks
            /\ dest.exists
            /\ _calculate_file_hash(dest.content) = transfer.file_hash

\* C3 witness: a transfer is completed although the source file was
\* overwritten while it ran
C3_Witness ==
    /\ Completed
    /\ g.edits > 0
    /\ completed_transfers[TID].total_chunks > 0

\* C4: when file_transfer_complete is handled with all chunks present and
\* the MD5 of the assembled file differs from file_hash, the destination file
\* is deleted, the 'Hash verification failed' notification is returned, the
\* transfer is not in completed_transfers and its status is failed.
C4_HashMismatchMarksFailed ==
    g.event = "hash_failed" =>
        /\ ~dest.exists
        /\ note = "hash_failed"
        /\ ~Completed
        /\ TID \in DOMAIN ongoing_transfers =>
               ongoing_transfers[TID].status = "failed"

\* C5: when file_chunk envelopes of the first pass are lost and every other
\* envelope is delivered (no clock stall makes the reader drop one as a
\* duplicate, nothing is left in flight), the receiver has completed the
\* transfer once the sender has sent file_transfer_complete and the
\* exchange has come to rest.
C5_LostChunksRecovered ==
    (/\ FileQuiet
     /\ g.lost > 0
     /\ g.stalls = 0
     /\ g.edits = 0
     /\ f_users[Sender] /\ f_users[Receiver])
    => Completed

\* exactly one file_metadata, each chunk once, one ack per chunk, one
\* file_transfer_complete were put on the wire; the file is received
ExactlyOnceAndReceived ==
    /\ g.meta = 1
    /\ g.complete = 1
    /\ \A i \in 0..(MaxChunks - 1) :
           LET n == IF i < sending_transfers[TID].total_chunks THEN 1 ELSE 0
           IN  g.chunk[i] = n /\ g.ack[i] = n
    /\ Completed
    /\ dest.exists
    /\ dest.content = g.src

\* C6: when no envelope is lost (and the source file is left alone and no
\* monitor finds the transfer stalled) and both nodes hold each other in
\* their user tables, a SendFile has put on the wire exactly one
\* file_metadata, each file_chunk once, one ack per chunk and one
\* file_transfer_complete, and the receiver has completed the transfer with
\* a file equal to the input, once the exchange has come to rest.
C6_LosslessExactlyOnce ==
    (/\ FileQuiet
     /\ g.lost = 0
     /\ g.edits = 0
     /\ g.monitor = 0
     /\ f_users[Sender] /\ f_users[Receiver])
    => ExactlyOnceAndReceived

-----------------------------------------------------------------------------
(* Properties of presence and chat *)

\* C1: whenever send_message is invoked on a started node, the envelope is
\* handed to send_to_peer's socket for every address that is in the
\* transport's peer map at that moment, also for a connected peer from which
\* no presence envelope has been received yet.
C1_BroadcastReachesEveryPeer ==
    \A n \in Nodes :
        h.bcast[n].done => h.bcast[n].peers \subseteq h.bcast[n].handed

\* the connection B dialed is up at both ends and nothing is left to read
DialedByB_Drained ==
    /\ running["A"] /\ running["B"]
    /\ Ephemeral("B") \in peers["A"]
    /\ Listen("A") \in peers["B"]
    /\ \A n \in Nodes : \A a \in Addrs(n) : inbox[n][a] = <<>>
    /\ backlog["A"] = {} /\ backlog["B"] = {}

\* C7: B dials A and A, holding B's connection, calls send_message("hello")
\* once; when everything sent has been read, B's callback has been given
\* the chat envelope exactly once, however the send interleaved with the
\* arrival of B's presence envelope and with heartbeats.
C7_HelloDeliveredExactlyOnce ==
    (/\ h.dial["B"] = "ok"
     /\ h.sent["A"] = 1
     /\ Ephemeral("B") \in h.bcast["A"].peers
     /\ DialedByB_Drained)
    => cb["B"].chat = 1

\* C8: after A, connected to B, has called stop, and B has read everything
\* A sent and seen the connection end, B has emitted a user_update whose
\* users list does not contain A; stop handed an offline presence envelope
\* to every peer that was connected.
C8_StopAnnouncedToPeers ==
    (/\ h.stop["A"].done
     /\ h.stop["A"].peers # {}
     /\ running["B"]
     /\ readers["B"] = {}
     /\ backlog["B"] = {})
    => /\ cb["B"].gone
       /\ h.stop["A"].peers \subseteq h.stop["A"].handed

-----------------------------------------------------------------------------
(* Properties of stop and of the bytes on a socket *)

\* C9: once stop has returned, whatever the acceptor, the readers, the
\* heartbeat worker and a dialing caller do around it, the peer map is
\* empty, every peer socket that was ever registered is closed and the
\* listen socket is closed.
C9_StopLeavesNothingOpen ==
    pc["stop"] = "returned" =>
        /\ net_peers = {}
        /\ registered \subseteq closed
        /\ server_socket = "closed"

\* the byte sequence is a concatenation of whole frames
RECURSIVE WellFramed(_)
WellFramed(bytes) ==
    \/ bytes = <<>>
    \/ /\ Len(bytes) >= BodyLen + 1
       /\ \E w \in Senders : \E k \in 1..MaxEnvelopes :
              SubSeq(bytes, 1, BodyLen + 1) = Frame(<<w, k>>)
       /\ WellFramed(SubSeq(bytes, BodyLen + 2, Len(bytes)))

\* C10: the byte stream given to a peer's socket by workers that send to it
\* concurrently holds each envelope with its trailing newline completely and
\* contiguously, or not at all.
C10_EnvelopesWholeOrAbsent == WellFramed(stream)

-----------------------------------------------------------------------------
(* Properties of the readers and of the history *)

C12_HistoryIsBoundedFifo ==
    /\ Len(message_history) <= MAX_HISTORY
    /\ LET n == Len(appended)
           first == IF n > MAX_HISTORY THEN n - MAX_HISTORY + 1 ELSE 1
       IN  message_history = SubSeq(appended, first, n)

\* the history has overflowed more than once and holds a sent chat envelope
\* and a received system envelope
C12_Witness ==
    /\ Len(appended) >= MAX_HISTORY + 2
    /\ \E i \in DOMAIN message_history : message_history[i].sender = "A"
    /\ \E i \in DOMAIN message_history : message_history[i].type = "system"

\* C15: every envelope other than a heartbeat that a reader has parsed has
\* been passed to message_callback once the readers have handled what they
\* took, also when two different envelopes carry the same timestamp and
\* sender or carry no sender.
C15_EveryEnvelopeDelivered ==
    (\A r \in InPeers : in_pc[r] = "recv") =>
        \A message \in ig.taken :
            message.type # "heartbeat" =>
                \E r \in InPeers : <<r, message>> \in on_message

-----------------------------------------------------------------------------
(* Properties of connect_to_peer *)

\* C13: a call of connect_to_peer with host localhost or 127.0.0.1 and the
\* node's own listen port returns False and nothing else happens: no dial,
\* no peer added, no reader started, no presence envelope sent, no call of
\* time.time(), no refresh and no callback.
C13_SelfDialRefused ==
    [][\A n \in Nodes :
         (~h.self[n] /\ h'.self[n]) =>
             /\ h'.dial[n] = "refused"
             /\ peers' = peers
             /\ readers' = readers
             /\ backlog' = backlog
             /\ inbox' = inbox
             /\ eof' = eof
             /\ clock' = clock
             /\ cb' = cb
             /\ users' = users
             /\ h'.refresh = h.refresh]_vars

\* a node was asked to dial its own listen port while it had a peer
C13_Witness ==
    \E n \in Nodes :
        /\ h.self[n]
        /\ h.dial[n] = "refused"
        /\ peers[n] # {}

-----------------------------------------------------------------------------
(* send_to_peer on the maps of one transport.  peers, message_buffers and  *)
(* last_heartbeat are the key sets of the three maps, closed the sockets   *)
(* that were closed, written the envelopes each socket has taken.          *)

MaxWrites == 2

SendInit ==
    /\ disk = NoFile
    /\ f_users = [n \in Nodes |-> FALSE]
    /\ FileAtRest
    /\ SharedInit
    /\ ChatAtRest
    /\ StopAtRest
    /\ WireAtRest
    /\ InboundAtRest
    /\ SendAtRest
    /\ LaterAtRest
    /\ TwiceAtRest

\* a removal that forgets the receive buffer and the heartbeat entry
RemoveFromPeersOnly(t, peer_address) ==
    IF peer_address \in t.peers
    THEN [t EXCEPT !.closed = @ \cup {peer_address},
                   !.peers = @ \ {peer_address}]
    ELSE t

\* ChatNetwork._remove_peer on the maps t
RemovePeer(t, peer_address) ==
    IF peer_address \in t.peers
    THEN [t EXCEPT !.closed = @ \cup {peer_address},
                   !.peers = @ \ {peer_address},
                   !.message_buffers = @ \ {peer_address},
                   !.last_heartbeat = @ \ {peer_address}]
    ELSE t

\* ChatNetwork.send_to_peer on the maps t; raised: the socket's send raises.
\* The maps it leaves and the value it returns.
SendToPeer(t, peer_address, raised) ==
    IF peer_address \notin t.peers
    THEN [t |-> t, outcome |-> "absent", result |-> FALSE]
    ELSE IF raised
    THEN [t |-> RemovePeer(t, peer_address), outcome |-> "raised",
          result |-> FALSE]
    ELSE [t |-> [t EXCEPT !.written[peer_address] = @ + 1],
          outcome |-> "written", result |-> TRUE]

\* ChatNetwork.connect_to_peer / _accept_connections: a socket is registered
SendDial(peer_address) ==
    /\ peer_address \notin tp.peers
    /\ peer_address \notin tp.closed
    /\ tp' = [tp EXCEPT !.peers = @ \cup {peer_address}]
    /\ UNCHANGED tp_call
    /\ UNCHANGED <<fonly, shared, cvars, tvars, wvars, ivars, xvars, nvars>>

\* _handle_peer starts: message_buffers[address] = "", last_heartbeat[address] = now
SendReaderSetup(peer_address) ==
    /\ peer_address \in tp.peers
    /\ peer_address \notin tp.message_buffers
    /\ tp' = [tp EXCEPT !.message_buffers = @ \cup {peer_address},
                        !.last_heartbeat = @ \cup {peer_address}]
    /\ UNCHANGED tp_call
    /\ UNCHANGED <<fonly, shared, cvars, tvars, wvars, ivars, xvars, nvars>>

\* a call of send_to_peer(peer_address, message)
SendCall(peer_address, raised) ==
    /\ tp.written[peer_address] < MaxWrites
    /\ LET r == SendToPeer(tp, peer_address, raised)
       IN  /\ tp' = r.t
           /\ tp_call' = [n |-> 1 - tp_call.n, peer_address |-> peer_address,
                          outcome |-> r.outcome, result |-> r.result]
    /\ UNCHANGED <<fonly, shared, cvars, tvars, wvars, ivars, xvars, nvars>>

SendNext ==
    \/ \E peer_address \in SendAddrs : SendDial(peer_address)
    \/ \E peer_address \in SendAddrs : SendReaderSetup(peer_address)
    \/ \E peer_address \in SendAddrs : \E raised \in BOOLEAN :
           SendCall(peer_address, raised)

SpecSend == SendInit /\ [][SendNext]_vars

\* C14: send_to_peer returns False and leaves every map as it was when the
\* address is not in peers; when the send raises it closes the socket,
\* removes the address from peers, message_buffers and last_heartbeat (and
\* no other address) and returns False; otherwise it returns True, the
\* socket has taken the envelope and every map is as it was.
C14_SendToPeerContract ==
    [][tp_call'.n # tp_call.n =>
         LET a == tp_call'.peer_address
             rest == SendAddrs \ {a}
         IN  /\ a \notin tp.peers =>
                    /\ tp_call'.outcome = "absent"
                    /\ ~tp_call'.result
                    /\ tp' = tp
             /\ (a \in tp.peers /\ tp_call'.outcome = "raised") =>
                    /\ ~tp_call'.result
                    /\ a \in tp'.closed
                    /\ a \notin tp'.peers
                    /\ a \notin tp'.message_buffers
                    /\ a \notin tp'.last_heartbeat
                    /\ tp'.peers \cap rest = tp.peers \cap rest
                    /\ tp'.message_buffers \cap rest = tp.message_buffers \cap rest
                    /\ tp'.last_heartbeat \cap rest = tp.last_heartbeat \cap rest
                    /\ tp'.closed \cap rest = tp.closed \cap rest
                    /\ tp'.written = tp.written
             /\ (a \in tp.peers /\ tp_call'.outcome # "raised") =>
                    /\ tp_call'.outcome = "written"
                    /\ tp_call'.result
                    /\ tp'.written[a] = tp.written[a] + 1
                    /\ tp'.peers = tp.peers
                    /\ tp'.message_buffers = tp.message_buffers
                    /\ tp'.last_heartbeat = tp.last_heartbeat
                    /\ tp'.closed = tp.closed]_vars

\* a send raised on a socket whose reader had set up its buffer and
\* heartbeat entry, after an envelope was written to it, while another peer
\* stays registered
C14_Witness ==
    /\ tp_call.outcome = "raised"
    /\ tp.written[tp_call.peer_address] > 0
    /\ tp_call.peer_address \in tp.closed
    /\ \E a \in tp.peers : a \in tp.message_buffers

-----------------------------------------------------------------------------
(* send_file called more than once for the same file name.  Time runs in   *)
(* ticks, TicksPerSecond of them to the second; tw_size is the number of   *)
(* chunk_size blocks of the file at file_path (0: no file there); tw_up    *)
(* says whether a broadcast of the sender reaches a peer.  The envelopes    *)
(* carry                                                                   *)
(* what the handlers read of them; their float timestamps are distinct.    *)

TicksPerSecond == 2
MaxTicks == 2
MaxTwSize == 2
MaxCalls == 2
MaxTwEdits == 2

\* transfer_id = f"{int(time.time())}_{self.chat_room.username}_{file_name}"
TransferId(now, username, file_name) ==
    <<now \div TicksPerSecond, username, file_name>>

TwEnvelope(type, transfer_id, chunk_index, chunks, total) ==
    [type |-> type, transfer_id |-> transfer_id, chunk_index |-> chunk_index,
     chunks |-> chunks, total_chunks |-> total]

TwiceInit ==
    /\ disk = NoFile
    /\ f_users = [n \in Nodes |-> FALSE]
    /\ FileAtRest
    /\ SharedInit
    /\ ChatAtRest
    /\ StopAtRest
    /\ WireAtRest
    /\ InboundAtRest
    /\ SendAtRest
    /\ LaterAtRest
    /\ tw_time = 0
    /\ tw_size \in 0..MaxTwSize
    /\ tw_up \in BOOLEAN
    /\ tw_sending = EmptyFn
    /\ tw_workers = {}
    /\ tw_wire = [ab |-> <<>>, ba |-> <<>>]
    /\ tw_ongoing = EmptyFn
    /\ tw_log = NoTwiceLog

\* ChatRoom._broadcast_message of the sender: the wire it leaves
TwBroadcast(wire, message) ==
    IF tw_up THEN [wire EXCEPT !.ab = Append(@, message)] ELSE wire

\* _send_file_chunk(file_path, transfer_id, chunk_index): the wire it leaves
TwSendChunk(wire, transfer_id, chunk_index) ==
    IF transfer_id \in DOMAIN tw_sending /\ chunk_index < tw_size
    THEN TwBroadcast(wire, TwEnvelope("file_chunk", transfer_id, chunk_index, {}, 0))
    ELSE wire

\* a loop "for chunk_index in requested_chunks: _send_file_chunk(...)"
RECURSIVE TwSendChunks(_, _, _)
TwSendChunks(wire, transfer_id, chunks) ==
    IF chunks = {} THEN wire
    ELSE LET chunk_index == CHOOSE i \in chunks : \A j \in chunks : i <= j
         IN  TwSendChunks(TwSendChunk(wire, transfer_id, chunk_index),
                          transfer_id, chunks \ {chunk_index})

\* time passes
Tick ==
    /\ tw_time < MaxTicks
    /\ tw_time' = tw_time + 1
    /\ UNCHANGED <<tw_size, tw_up, tw_sending, tw_workers, tw_wire, tw_ongoing, tw_log>>
    /\ UNCHANGED <<fonly, shared, cvars, tvars, wvars, ivars, svars, nvars>>

\* the file at file_path is written again, with another size, or removed
TwEdit(size) ==
    /\ tw_log.edits < MaxTwEdits
    /\ size # tw_size
    /\ tw_size' = size
    /\ tw_log' = [tw_log EXCEPT !.edits = @ + 1]
    /\ UNCHANGED <<tw_time, tw_up, tw_sending, tw_workers, tw_wire, tw_ongoing>>
    /\ UNCHANGED <<fonly, shared, cvars, tvars, wvars, ivars, svars, nvars>>

\* the connection to the peer is closed: a broadcast reaches nobody
PeerLeaves ==
    /\ tw_up
    /\ ~tw_log.left
    /\ tw_up' = FALSE
    /\ tw_log' = [tw_log EXCEPT !.left = TRUE]
    /\ UNCHANGED <<tw_time, tw_size, tw_sending, tw_workers, tw_wire, tw_ongoing>>
    /\ UNCHANGED <<fonly, shared, cvars, tvars, wvars, ivars, svars, nvars>>

\* the peer is connected again under the address it had
PeerReturns ==
    /\ ~tw_up
    /\ tw_log.left
    /\ ~tw_log.back
    /\ tw_up' = TRUE
    /\ tw_log' = [tw_log EXCEPT !.back = TRUE]
    /\ UNCHANGED <<tw_time, tw_size, tw_sending, tw_workers, tw_wire, tw_ongoing>>
    /\ UNCHANGED <<fonly, shared, cvars, tvars, wvars, ivars, svars, nvars>>

\* FileTransferManager.send_file(file_path)
TwSendFile ==
    /\ Len(tw_log.calls) < MaxCalls
    /\ LET call == Len(tw_log.calls) + 1
           transfer_id == TransferId(tw_time, "A", "f")
           record == [total_chunks |-> tw_size, acked_chunks |-> {}, call |-> call]
           stored == Put(tw_sending, transfer_id, record)
           entry(id, ret, after) ==
               [id |-> id, ret |-> ret, before |-> tw_sending, after |-> after]
       IN  IF tw_size = 0
           THEN \* not os.path.exists(file_path)
                /\ tw_log' = [tw_log EXCEPT !.calls =
                                  Append(@, entry(<<>>, FALSE, tw_sending))]
                /\ UNCHANGED <<tw_sending, tw_workers, tw_wire>>
           ELSE IF ~tw_up
           THEN \* the broadcast returns False: del sending_transfers[transfer_id]
                /\ tw_sending' = Del(stored, transfer_id)
                /\ tw_log' = [tw_log EXCEPT !.calls =
                                  Append(@, entry(transfer_id, FALSE,
                                                  Del(stored, transfer_id)))]
                /\ UNCHANGED <<tw_workers, tw_wire>>
           ELSE /\ tw_sending' = stored
                /\ tw_wire' = TwBroadcast(tw_wire,
                                  TwEnvelope("file_metadata", transfer_id, 0, {},
                                             tw_size))
                /\ tw_workers' = tw_workers \cup
                       {[call |-> call, transfer_id |-> transfer_id,
                         pc |-> "start", total_chunks |-> 0, chunk_index |-> 0,
                         sent |-> <<>>, complete |-> "no"]}
                /\ tw_log' = [tw_log EXCEPT !.calls =
                                  Append(@, entry(transfer_id, TRUE, stored))]
    /\ UNCHANGED <<tw_time, tw_size, tw_up, tw_ongoing>>
    /\ UNCHANGED <<fonly, shared, cvars, tvars, wvars, ivars, svars, nvars>>

\* _send_file_chunks starts: it returns when the record is gone, and reads
\* total_chunks of the record otherwise
WorkerStart(call) ==
    \E w \in tw_workers :
        /\ w.call = call
        /\ w.pc = "start"
        /\ tw_workers' = (tw_workers \ {w}) \cup
               {IF w.transfer_id \in DOMAIN tw_sending
                THEN [w EXCEPT !.pc = "chunks",
                               !.total_chunks = tw_sending[w.transfer_id].total_chunks]
                ELSE [w EXCEPT !.pc = "done"]}
        /\ UNCHANGED <<tw_time, tw_size, tw_up, tw_sending, tw_wire, tw_ongoing, tw_log>>
        /\ UNCHANGED <<fonly, shared, cvars, tvars, wvars, ivars, svars, nvars>>

\* one round of "for chunk_index in range(total_chunks)"
WorkerChunk(call) ==
    \E w \in tw_workers :
        /\ w.call = call
        /\ w.pc = "chunks"
        /\ w.chunk_index < w.total_chunks
        /\ tw_wire' = TwSendChunk(tw_wire, w.transfer_id, w.chunk_index)
        /\ tw_workers' = (tw_workers \ {w}) \cup
               {[w EXCEPT !.chunk_index = @ + 1,
                          !.sent = IF TwSendChunk(tw_wire, w.transfer_id,
                                                  w.chunk_index) # tw_wire
                                   THEN Append(@, w.chunk_index) ELSE @]}
        /\ UNCHANGED <<tw_time, tw_size, tw_up, tw_sending, tw_ongoing, tw_log>>
        /\ UNCHANGED <<fonly, shared, cvars, tvars, wvars, ivars, svars, nvars>>

\* the wait for the acknowledgments ends (its 30 s are longer than the time
\* followed here) and file_transfer_complete is broadcast
WorkerComplete(call) ==
    \E w \in tw_workers :
        /\ w.call = call
        /\ w.pc = "chunks"
        /\ w.chunk_index = w.total_chunks
        /\ \/ w.transfer_id \notin DOMAIN tw_sending
           \/ /\ w.transfer_id \in DOMAIN tw_sending
              /\ Cardinality(tw_sending[w.transfer_id].acked_chunks) >= w.total_chunks
        /\ tw_wire' = TwBroadcast(tw_wire,
                          TwEnvelope("file_transfer_complete", w.transfer_id, 0, {}, 0))
        /\ tw_workers' = (tw_workers \ {w}) \cup
               {[w EXCEPT !.pc = "done",
                          !.complete =
                              IF ~tw_up THEN "nobody"
                              ELSE IF w.transfer_id \notin DOMAIN tw_sending
                              THEN "unknown"
                              ELSE IF (0..(w.total_chunks - 1)) \subseteq
                                        tw_sending[w.transfer_id].acked_chunks
                              THEN "acknowledged"
                              ELSE "unacknowledged"]}
        /\ UNCHANGED <<tw_time, tw_size, tw_up, tw_sending, tw_ongoing, tw_log>>
        /\ UNCHANGED <<fonly, shared, cvars, tvars, wvars, ivars, svars, nvars>>

\* the receiver takes the next envelope: _handle_file_metadata,
\* _handle_file_chunk or _handle_transfer_complete
TwReceiverRead ==
    /\ tw_wire.ab # <<>>
    /\ LET message == Head(tw_wire.ab)
           id == message.transfer_id
           rest == [tw_wire EXCEPT !.ab = Tail(@)]
       IN  CASE message.type = "file_metadata" ->
                  /\ tw_ongoing' = Put(tw_ongoing, id,
                         [total_chunks |-> message.total_chunks,
                          received_chunks |-> {}])
                  /\ tw_wire' = rest
                  /\ UNCHANGED tw_log
             [] message.type = "file_chunk" ->
                  IF id \notin DOMAIN tw_ongoing
                  THEN /\ tw_wire' = rest
                       /\ UNCHANGED <<tw_ongoing, tw_log>>
                  ELSE /\ tw_wire' = [rest EXCEPT !.ba = Append(@,
                              TwEnvelope("file_chunk_ack", id,
                                         message.chunk_index, {}, 0))]
                       /\ tw_ongoing' = [tw_ongoing EXCEPT
                              ![id].received_chunks = @ \cup {message.chunk_index}]
                       /\ UNCHANGED tw_log
             [] message.type = "file_transfer_complete" ->
                  IF id \notin DOMAIN tw_ongoing
                  THEN /\ tw_wire' = rest
                       /\ UNCHANGED <<tw_ongoing, tw_log>>
                  ELSE LET transfer == tw_ongoing[id]
                           missing_chunks == (0..(transfer.total_chunks - 1))
                                                 \ transfer.received_chunks
                       IN  IF Cardinality(transfer.received_chunks)
                                  # transfer.total_chunks
                           THEN \* _request_missing_chunks
                                /\ tw_wire' =
                                     IF missing_chunks # {}
                                     THEN [rest EXCEPT !.ba = Append(@,
                                            TwEnvelope("file_chunk_request", id, 0,
                                                       missing_chunks, 0))]
                                     ELSE rest
                                /\ UNCHANGED <<tw_ongoing, tw_log>>
                           ELSE \* the destination file is written from the
                                \* indices of range(total_chunks) that are
                                \* there: the hash matches and the record
                                \* moves to completed_transfers, or it does
                                \* not, the file is removed and the record stays
                                /\ tw_wire' = rest
                                /\ IF missing_chunks = {}
                                   THEN \/ /\ tw_ongoing' = Del(tw_ongoing, id)
                                           /\ tw_log' = [tw_log EXCEPT
                                                !.assembled = @ \cup {id}]
                                        \/ UNCHANGED <<tw_ongoing, tw_log>>
                                   ELSE /\ tw_log' = [tw_log EXCEPT
                                                !.partial = TRUE]
                                        /\ UNCHANGED tw_ongoing
    /\ UNCHANGED <<tw_time, tw_size, tw_up, tw_sending, tw_workers>>
    /\ UNCHANGED <<fonly, shared, cvars, tvars, wvars, ivars, svars, nvars>>

\* the sender takes the next envelope: _handle_chunk_acknowledgment or
\* _handle_chunk_request
TwSenderRead ==
    /\ tw_wire.ba # <<>>
    /\ LET message == Head(tw_wire.ba)
           id == message.transfer_id
           rest == [tw_wire EXCEPT !.ba = Tail(@)]
       IN  IF id \notin DOMAIN tw_sending
           THEN /\ tw_wire' = rest
                /\ UNCHANGED tw_sending
           ELSE IF message.type = "file_chunk_ack"
           THEN /\ tw_sending' = [tw_sending EXCEPT
                       ![id].acked_chunks = @ \cup {message.chunk_index}]
                /\ tw_wire' = rest
           ELSE /\ tw_wire' = TwSendChunks(rest, id, message.chunks)
                /\ UNCHANGED tw_sending
    /\ UNCHANGED <<tw_time, tw_size, tw_up, tw_workers, tw_ongoing, tw_log>>
    /\ UNCHANGED <<fonly, shared, cvars, tvars, wvars, ivars, svars, nvars>>

TwiceNext ==
    \/ Tick
    \/ \E size \in 0..MaxTwSize : TwEdit(size)
    \/ PeerLeaves
    \/ PeerReturns
    \/ TwSendFile
    \/ \E call \in 1..MaxCalls : WorkerStart(call)
    \/ \E call \in 1..MaxCalls : WorkerChunk(call)
    \/ \E call \in 1..MaxCalls : WorkerComplete(call)
    \/ TwReceiverRead
    \/ TwSenderRead

SpecTwice == TwiceInit /\ [][TwiceNext]_vars

\* C17: any two calls of send_file that compute a transfer_id compute
\* different ones, also for the same file name within the same second, and
\* no call finds a record under the transfer_id it stores.
C17_TransferIdsUnique ==
    \A i, j \in DOMAIN tw_log.calls :
        (i < j /\ tw_log.calls[i].id # <<>> /\ tw_log.calls[j].id # <<>>) =>
            /\ tw_log.calls[i].id # tw_log.calls[j].id
            /\ tw_log.calls[j].id \notin DOMAIN tw_log.calls[j].before

\* C18: a call of send_file that returns False (no file at the path, or the
\* file_metadata broadcast reached no peer) leaves sending_transfers as it
\* found it and starts no worker.
C18_FailedSendLeavesNoTrace ==
    \A i \in DOMAIN tw_log.calls :
        ~tw_log.calls[i].ret =>
            /\ tw_log.calls[i].after = tw_log.calls[i].before
            /\ \A w \in tw_workers : w.call # i

\* C19: in every state the receiver holds at most total_chunks chunks of
\* every incoming transfer and the sender at most total_chunks
\* acknowledgments of every outgoing transfer.
C19_ChunkCountsBounded ==
    /\ \A id \in DOMAIN tw_ongoing :
           Cardinality(tw_ongoing[id].received_chunks) <= tw_ongoing[id].total_chunks
    /\ \A id \in DOMAIN tw_sending :
           Cardinality(tw_sending[id].acked_chunks) <= tw_sending[id].total_chunks

-----------------------------------------------------------------------------
(* The reader of one peer and the bytes that peer writes.  A line is named *)
(* by its content; json.dumps of an envelope is FrameLen bytes that carry  *)
(* that name, json.loads recognizes a line that is exactly the bytes of    *)
(* one envelope and raises JSONDecodeError on any other.  One call of recv *)
(* returns any non-empty prefix of the bytes that have not arrived yet.    *)

MaxLines == 3
FrameLen == 2

\* the envelopes the peer may write: "hello" and "bye" carry the same
\* timestamp and sender
FrameEnvelopes ==
    {ChatEnvelope("chat", 1, "B", None, None, "hello"),
     ChatEnvelope("chat", 1, "B", None, None, "bye"),
     ChatEnvelope("chat", 2, "B", None, None, "later")}

\* what the peer may write as a line: an envelope, or text that is no JSON
LineNames == {message.content : message \in FrameEnvelopes} \cup {"junk"}

Newline == <<"nl", 0>>

\* the bytes of the line called name, without and with its newline
LineBody(name) == [i \in 1..FrameLen |-> <<name, i>>]
LineBytes(name) == Append(LineBody(name), Newline)

\* json.dumps(message)
dumps(message) == LineBody(message.content)

\* json.loads(message_raw) returns a value
Parses(message_raw) == \E message \in FrameEnvelopes : dumps(message) = message_raw

\* json.loads(message_raw), where it returns
loads(message_raw) ==
    CHOOSE message \in FrameEnvelopes : dumps(message) = message_raw

RECURSIVE StreamOf(_)
StreamOf(names) ==
    IF names = <<>> THEN <<>>
    ELSE LineBytes(Head(names)) \o StreamOf(Tail(names))

\* "\n" in buffer
HasNewline(buffer) == \E i \in DOMAIN buffer : buffer[i] = Newline

\* buffer.split("\n", 1)
SplitAt(buffer) ==
    CHOOSE i \in DOMAIN buffer :
        buffer[i] = Newline /\ \A j \in 1..(i - 1) : buffer[j] # Newline
FirstLine(buffer) == SubSeq(buffer, 1, SplitAt(buffer) - 1)
AfterFirstLine(buffer) == SubSeq(buffer, SplitAt(buffer) + 1, Len(buffer))

\* a duplicate check that finds nothing
NeverDuplicate(id, P) == FALSE

\* if msg_id in self.processed_messages
Duplicate(id, P) == id \in P

\* a parse error that skips the line only
SkipLine(rest) == rest

\* self.message_buffers[address] = ""  # Clear buffer on error
ClearOnError(rest) == <<>>

\* the second peer's reader holds the first byte of a line
HeldByOther == <<<<"hello", 1>>>>

\* the loop "while '\n' in self.message_buffers[address]" on st = [buf, seen,
\* out, lines]: lines records, per line taken from the buffer, the line, the
\* set of fingerprints and the number of callbacks before and after it, and
\* the buffer it left
RECURSIVE ProcessLines(_)
ProcessLines(st) ==
    IF ~HasNewline(st.buf) THEN st
    ELSE LET message_raw == FirstLine(st.buf)
             rest == AfterFirstLine(st.buf)
             line(seen, out, buf) ==
                 [raw |-> message_raw, seen |-> st.seen, before |-> Len(st.out),
                  seen_after |-> seen, after |-> Len(out), rest |-> buf]
         IN  IF ~Parses(message_raw)
             THEN ProcessLines([st EXCEPT
                      !.buf = ClearOnError(rest),
                      !.lines = Append(@, line(st.seen, st.out, ClearOnError(rest)))])
             ELSE LET message == loads(message_raw)
                  IN  IF Duplicate(msg_id(message), st.seen)
                      THEN ProcessLines([st EXCEPT
                               !.buf = rest,
                               !.lines = Append(@, line(st.seen, st.out, rest))])
                      ELSE LET seen == CHOOSE P \in AddProcessed(st.seen, msg_id(message)) : TRUE
                               out == Append(st.out, message)
                           IN  ProcessLines([buf |-> rest, seen |-> seen, out |-> out,
                                             lines |-> Append(st.lines,
                                                          line(seen, out, rest))])

FrameInit ==
    /\ disk = NoFile
    /\ f_users = [n \in Nodes |-> FALSE]
    /\ FileAtRest
    /\ SharedInit
    /\ ChatAtRest
    /\ StopAtRest
    /\ WireAtRest
    /\ InboundAtRest
    /\ SendAtRest
    /\ TwiceAtRest
    /\ DispatchAtRest
    /\ AckAtRest
    /\ ConnAtRest
    /\ MonitorAtRest
    /\ PresenceAtRest
    /\ BeatAtRest
    /\ TimerAtRest
    /\ fr_sent \in UNION {[1..n -> LineNames] : n \in 1..MaxLines}
    /\ fr_stream = StreamOf(fr_sent)
    /\ fr_buf = [a \in FrameAddrs |-> IF a = "p" THEN <<>> ELSE HeldByOther]
    /\ fr_seen = {}
    /\ fr_out = <<>>
    /\ fr_up = TRUE
    /\ fr_log = NoFrameLog

\* one round of _handle_peer's loop: recv returns the next k bytes, they are
\* appended to the buffer, and every complete line is processed
FrameRecv(k) ==
    /\ fr_up
    /\ k \in 1..Len(fr_stream)
    /\ LET data == SubSeq(fr_stream, 1, k)
           st == ProcessLines([buf |-> fr_buf["p"] \o data, seen |-> fr_seen,
                               out |-> fr_out, lines |-> <<>>])
           arrived == Len(StreamOf(fr_sent)) - Len(fr_stream) + k
       IN  /\ fr_stream' = SubSeq(fr_stream, k + 1, Len(fr_stream))
           /\ fr_buf' = [fr_buf EXCEPT !["p"] = st.buf]
           /\ fr_seen' = st.seen
           /\ fr_out' = st.out
           /\ fr_log' = [marks |-> Append(fr_log.marks, arrived), lines |-> st.lines]
    /\ UNCHANGED <<fr_sent, fr_up>>
    /\ UNCHANGED <<fonly, shared, cvars, tvars, wvars, ivars, svars, xvars>>
    /\ UNCHANGED <<tmvars, btvars, prvars, mnvars, cnvars, akvars, dpvars>>

\* the peer has closed: recv returns no data, the loop ends, _remove_peer
FrameEof ==
    /\ fr_up
    /\ fr_stream = <<>>
    /\ fr_up' = FALSE
    /\ fr_buf' = Del(fr_buf, "p")
    /\ fr_log' = [fr_log EXCEPT !.lines = <<>>]
    /\ UNCHANGED <<fr_sent, fr_stream, fr_seen, fr_out>>
    /\ UNCHANGED <<fonly, shared, cvars, tvars, wvars, ivars, svars, xvars>>
    /\ UNCHANGED <<tmvars, btvars, prvars, mnvars, cnvars, akvars, dpvars>>

FrameNext ==
    \/ \E k \in 1..(MaxLines * (FrameLen + 1)) : FrameRecv(k)
    \/ FrameEof

SpecFrame == FrameInit /\ [][FrameNext]_vars

-----------------------------------------------------------------------------
(* Properties of the reader's framing *)

\* the number of bytes recv has returned so far
Arrived == Len(StreamOf(fr_sent)) - Len(fr_stream)

\* the envelope written as line i
SentEnvelope(i) == loads(LineBody(fr_sent[i]))

\* C21: when the peer writes well-formed envelopes only, each of them once,
\* then under every fragmentation the envelopes passed to message_callback
\* are the envelopes whose newline has arrived, in the order written and
\* equal to what was written, and the buffer holds the bytes of the
\* incomplete last line.
C21_EnvelopesInOrderAsSent ==
    (/\ \A i \in DOMAIN fr_sent : fr_sent[i] # "junk"
     /\ \A i, j \in DOMAIN fr_sent : i # j => fr_sent[i] # fr_sent[j]) =>
        LET n == Arrived \div (FrameLen + 1)
        IN  /\ fr_out = [i \in 1..n |-> SentEnvelope(i)]
            /\ fr_up => fr_buf["p"] = SubSeq(StreamOf(fr_sent),
                                             n * (FrameLen + 1) + 1, Arrived)

\* a line of the last read whose fingerprint was in processed_messages
\* when the reader took it from the buffer
WasDuplicate(l) == Parses(l.raw) /\ msg_id(loads(l.raw)) \in l.seen

\* C23: a line whose fingerprint is already in processed_messages is
\* dropped: no callback for it, processed_messages as before, the peer
\* stays connected, and the next complete line of the buffer is taken.
C23_DuplicateDropped ==
    \A i \in DOMAIN fr_log.lines :
        LET l == fr_log.lines[i]
        IN  WasDuplicate(l) =>
                /\ l.after = l.before
                /\ l.seen_after = l.seen
                /\ fr_up
                /\ HasNewline(l.rest) =>
                       /\ i < Len(fr_log.lines)
                       /\ fr_log.lines[i + 1].raw = FirstLine(l.rest)

\* a duplicate was dropped and the line behind it in the same read was
\* passed to the callback
C23_Witness ==
    \E i \in DOMAIN fr_log.lines :
        /\ WasDuplicate(fr_log.lines[i])
        /\ i < Len(fr_log.lines)
        /\ fr_log.lines[i + 1].after = fr_log.lines[i + 1].before + 1
        /\ fr_out[Len(fr_out)].content = "later"

\* the read in which byte number b arrived
ReadOf(b) ==
    CHOOSE r \in DOMAIN fr_log.marks :
        fr_log.marks[r] >= b /\ \A q \in 1..(r - 1) : fr_log.marks[q] < b

\* C25 as stated: after a line that is no JSON, every well-formed envelope
\* that arrives in later reads (and shares its fingerprint with no other
\* envelope written) is passed to the callback once its newline has arrived.
C25_LaterEnvelopesDelivered ==
    \A i, j \in DOMAIN fr_sent :
        (/\ i < j
         /\ fr_sent[i] = "junk"
         /\ fr_sent[j] # "junk"
         /\ \A k \in DOMAIN fr_sent \ {j} :
                fr_sent[k] # "junk" => msg_id(SentEnvelope(k)) # msg_id(SentEnvelope(j))
         /\ Arrived >= j * (FrameLen + 1)
         /\ ReadOf((j - 1) * (FrameLen + 1) + 1) > ReadOf(i * (FrameLen + 1)))
        => \E x \in DOMAIN fr_out : fr_out[x] = SentEnvelope(j)

\* C25, amended: a line that is no JSON empties the peer's receive buffer,
\* what followed the line in it included; no callback is invoked for it,
\* processed_messages and the other peer's buffer are as before and the
\* peer stays connected; every line the reader takes from the buffer that
\* parses and is no duplicate is passed to the callback.
C25_ParseErrorClearsBuffer ==
    /\ fr_buf["q"] = HeldByOther
    /\ \A i \in DOMAIN fr_log.lines :
           LET l == fr_log.lines[i]
           IN  /\ ~Parses(l.raw) =>
                      /\ l.rest = <<>>
                      /\ i = Len(fr_log.lines)
                      /\ l.after = l.before
                      /\ l.seen_after = l.seen
                      /\ fr_up
               /\ (Parses(l.raw) /\ ~WasDuplicate(l)) =>
                      /\ l.after = l.before + 1
                      /\ fr_out[l.after] = loads(l.raw)

\* a line that is no JSON took a complete envelope behind it out of the
\* buffer, and an envelope of a later read was passed to the callback
C25_Witness ==
    /\ Len(fr_sent) = 3
    /\ fr_sent[1] = "junk"
    /\ Len(fr_log.marks) = 2
    /\ fr_log.marks[1] = 2 * (FrameLen + 1)
    /\ Len(fr_out) = 1
    /\ fr_out[1] = SentEnvelope(3)
    /\ fr_up

-----------------------------------------------------------------------------
(* ChatRoom.stop, statement by statement, against the refresh timer: the   *)
(* Timer thread that runs _refresh_peer_list and a caller of               *)
(* connect_to_peer whose call ends in _refresh_peer_list.                  *)

TimerInit ==
    /\ disk = NoFile
    /\ f_users = [n \in Nodes |-> FALSE]
    /\ FileAtRest
    /\ SharedInit
    /\ ChatAtRest
    /\ StopAtRest
    /\ WireAtRest
    /\ InboundAtRest
    /\ SendAtRest
    /\ TwiceAtRest
    /\ DispatchAtRest
    /\ AckAtRest
    /\ ConnAtRest
    /\ MonitorAtRest
    /\ PresenceAtRest
    /\ BeatAtRest
    /\ FrameAtRest
    /\ TimerAtRest

\* a stop that closes the sockets before it announces
TransportBeforeOffline == <<"cancel", "transport", "offline", "monitor">>

\* the statements of ChatRoom.stop, in program order: cancel the timer,
\* _set_status(OFFLINE), file_manager.stop(), network.stop()
StopOrder == <<"cancel", "offline", "monitor", "transport">>

\* _start_peer_refresh_timer on tm = [timers, ref]: cancel the Timer that
\* _peer_refresh_timer refers to, make a new one, start it
_start_peer_refresh_timer(tm) ==
    LET cancelled == IF tm.ref # 0 /\ tm.timers[tm.ref] = "pending"
                     THEN [tm.timers EXCEPT ![tm.ref] = "cancelled"]
                     ELSE tm.timers
        id == CHOOSE i \in 1..MaxTimers :
                  cancelled[i] = "new" /\ \A j \in 1..(i - 1) : cancelled[j] # "new"
    IN  [timers |-> [cancelled EXCEPT ![id] = "pending"], ref |-> id]

\* a Timer object is left to make
CanArm == \E id \in 1..MaxTimers : tm_timers[id] = "new"

\* ChatRoom.start
TimerStart ==
    /\ ~tm_started
    /\ tm_started' = TRUE
    /\ tm_net' = TRUE
    /\ LET tm == _start_peer_refresh_timer([timers |-> tm_timers, ref |-> tm_ref])
       IN  tm_timers' = tm.timers /\ tm_ref' = tm.ref
    /\ UNCHANGED <<tm_pc, tm_monitor, tm_conn, tm_log>>
    /\ UNCHANGED <<fonly, shared, cvars, tvars, wvars, ivars, svars, xvars>>
    /\ UNCHANGED <<frvars, btvars, prvars, mnvars, cnvars, akvars, dpvars>>

\* the 30 s of a pending Timer are over: its thread runs _refresh_peer_list
\* up to the callbacks (the presence broadcast, the user_update)
TimerFire(id) ==
    /\ tm_timers[id] = "pending"
    /\ tm_timers' = [tm_timers EXCEPT ![id] = "running"]
    /\ tm_log' = [tm_log EXCEPT !.after_stop =
                      IF tm_pc = Len(StopOrder) THEN @ + 1 ELSE @]
    /\ UNCHANGED <<tm_started, tm_pc, tm_ref, tm_net, tm_monitor, tm_conn>>
    /\ UNCHANGED <<fonly, shared, cvars, tvars, wvars, ivars, svars, xvars>>
    /\ UNCHANGED <<frvars, btvars, prvars, mnvars, cnvars, akvars, dpvars>>

\* the last statement of _refresh_peer_list on the Timer thread
TimerRearm(id) ==
    /\ tm_timers[id] = "running"
    /\ CanArm
    /\ LET tm == _start_peer_refresh_timer(
                     [timers |-> [tm_timers EXCEPT ![id] = "done"], ref |-> tm_ref])
       IN  tm_timers' = tm.timers /\ tm_ref' = tm.ref
    /\ UNCHANGED <<tm_started, tm_pc, tm_net, tm_monitor, tm_conn, tm_log>>
    /\ UNCHANGED <<fonly, shared, cvars, tvars, wvars, ivars, svars, xvars>>
    /\ UNCHANGED <<frvars, btvars, prvars, mnvars, cnvars, akvars, dpvars>>

\* connect_to_peer has dialed and sent its presence envelope; its caller
\* runs _refresh_peer_list up to the callbacks
ConnectRefresh ==
    /\ tm_started
    /\ tm_conn = "none"
    /\ tm_conn' = "refreshing"
    /\ UNCHANGED <<tm_started, tm_pc, tm_timers, tm_ref, tm_net, tm_monitor, tm_log>>
    /\ UNCHANGED <<fonly, shared, cvars, tvars, wvars, ivars, svars, xvars>>
    /\ UNCHANGED <<frvars, btvars, prvars, mnvars, cnvars, akvars, dpvars>>

\* the last statement of _refresh_peer_list in the caller of connect_to_peer
ConnectRearm ==
    /\ tm_conn = "refreshing"
    /\ CanArm
    /\ tm_conn' = "done"
    /\ LET tm == _start_peer_refresh_timer([timers |-> tm_timers, ref |-> tm_ref])
       IN  tm_timers' = tm.timers /\ tm_ref' = tm.ref
    /\ UNCHANGED <<tm_started, tm_pc, tm_net, tm_monitor, tm_log>>
    /\ UNCHANGED <<fonly, shared, cvars, tvars, wvars, ivars, svars, xvars>>
    /\ UNCHANGED <<frvars, btvars, prvars, mnvars, cnvars, akvars, dpvars>>

\* the next statement of ChatRoom.stop
StopStatement ==
    /\ tm_started
    /\ tm_pc < Len(StopOrder)
    /\ LET statement == StopOrder[tm_pc + 1]
           event == [name |-> statement, open |-> tm_net, monitor |-> tm_monitor,
                     pending |-> tm_ref # 0 /\ tm_timers[tm_ref] = "pending"]
       IN  /\ tm_log' = [tm_log EXCEPT !.events = Append(@, event)]
           /\ tm_timers' =
                  IF statement = "cancel" /\ tm_ref # 0 /\ tm_timers[tm_ref] = "pending"
                  THEN [tm_timers EXCEPT ![tm_ref] = "cancelled"]
                  ELSE tm_timers
           /\ tm_monitor' = IF statement = "monitor" THEN FALSE ELSE tm_monitor
           /\ tm_net' = IF statement = "transport" THEN FALSE ELSE tm_net
    /\ tm_pc' = tm_pc + 1
    /\ UNCHANGED <<tm_started, tm_ref, tm_conn>>
    /\ UNCHANGED <<fonly, shared, cvars, tvars, wvars, ivars, svars, xvars>>
    /\ UNCHANGED <<frvars, btvars, prvars, mnvars, cnvars, akvars, dpvars>>

TimerNext ==
    \/ TimerStart
    \/ \E id \in 1..MaxTimers : TimerFire(id)
    \/ \E id \in 1..MaxTimers : TimerRearm(id)
    \/ ConnectRefresh
    \/ ConnectRearm
    \/ StopStatement

SpecTimer == TimerInit /\ [][TimerNext]_vars

\* C22: stop cancels the refresh timer, then broadcasts the offline presence,
\* then stops the monitor of the file transfers, then stops the transport;
\* when the offline presence is broadcast the transport has not been
\* stopped and the monitor is still running.
C22_StopOrder ==
    /\ \A i \in DOMAIN tm_log.events :
           /\ tm_log.events[i].name =
                  <<"cancel", "offline", "monitor", "transport">>[i]
           /\ tm_log.events[i].name = "offline" =>
                  /\ tm_log.events[i].open
                  /\ tm_log.events[i].monitor
    /\ tm_pc = 4 => ~tm_net /\ ~tm_monitor

\* stop has run to its end and its first statement cancelled a pending timer
C22_Witness ==
    /\ tm_pc = 4
    /\ Len(tm_log.events) = 4
    /\ tm_log.events[1].pending
    /\ tm_log.events[2].open

\* C27: once stop has returned no refresh timer is pending, also when stop
\* ran while a refresh callback or a connect_to_peer was executing, and no
\* refresh fires.
C27_NoRefreshAfterStop ==
    tm_pc = 4 =>
        /\ \A id \in 1..MaxTimers : tm_timers[id] # "pending"
        /\ tm_log.after_stop = 0


\* ---------------------------------------------------------------------------
\* SpecBeat: the liveness check of the heartbeat thread against the reader
\* threads (network.py, _handle_peer_connection and _check_connections).  The
\* two run without a lock: a reader is followed statement by statement from
\* recv returning data (line 35) to the refresh of last_heartbeat (line 41).
\* ---------------------------------------------------------------------------

\* ChatNetwork.connection_timeout and ChatNetwork.heartbeat_interval, seconds
connection_timeout == 15
heartbeat_interval == 5

\* how many heartbeat intervals the clock is followed for
MaxBeatTicks == 4

BeatInit ==
    /\ disk = NoFile
    /\ f_users = [n \in Nodes |-> FALSE]
    /\ FileAtRest
    /\ SharedInit
    /\ ChatAtRest
    /\ StopAtRest
    /\ WireAtRest
    /\ InboundAtRest
    /\ SendAtRest
    /\ TwiceAtRest
    /\ DispatchAtRest
    /\ AckAtRest
    /\ ConnAtRest
    /\ MonitorAtRest
    /\ PresenceAtRest
    /\ FrameAtRest
    /\ TimerAtRest
    /\ BeatAtRest

\* self.last_heartbeat.get(peer, 0)
LastHeartbeat(lh, peer) == IF peer \in DOMAIN lh THEN lh[peer] ELSE 0

\* _check_connections: current_time - last_heartbeat.get(peer, 0) > connection_timeout
TimedOut(lh, peer, current_time) ==
    current_time - LastHeartbeat(lh, peer) > connection_timeout

\* _remove_peer for each address of a set: the socket is closed, the address
\* leaves peers and last_heartbeat
BeatRemove(lh, gone) == [a \in (DOMAIN lh) \ gone |-> lh[a]]

\* connect_to_peer or _accept_connections: the peer is registered and its
\* reader thread is started
BeatRegister(a) ==
    /\ bt_rpc[a] = "none"
    /\ bt_peers' = bt_peers \cup {a}
    /\ bt_rpc' = [bt_rpc EXCEPT ![a] = "unstarted"]
    /\ bt_log' = [bt_log EXCEPT !.registered = Put(@, a, bt_now)]
    /\ UNCHANGED <<bt_now, bt_lh, bt_got>>
    /\ UNCHANGED <<fonly, shared, cvars, tvars, wvars, ivars, svars, xvars>>
    /\ UNCHANGED <<frvars, tmvars, prvars, mnvars, cnvars, akvars, dpvars>>

\* _handle_peer_connection, lines 30-31: the reader initialises the buffer
\* and last_heartbeat, then blocks in recv
BeatReaderSetup(a) ==
    /\ bt_rpc[a] = "unstarted"
    /\ bt_lh' = Put(bt_lh, a, bt_now)
    /\ bt_rpc' = [bt_rpc EXCEPT ![a] = "recv"]
    /\ UNCHANGED <<bt_now, bt_peers, bt_got, bt_log>>
    /\ UNCHANGED <<fonly, shared, cvars, tvars, wvars, ivars, svars, xvars>>
    /\ UNCHANGED <<frvars, tmvars, prvars, mnvars, cnvars, akvars, dpvars>>

\* line 35: recv returns data of the peer, whose socket is open
BeatRecv(a) ==
    /\ bt_rpc[a] = "recv"
    /\ a \in bt_peers
    /\ bt_got' = [bt_got EXCEPT ![a] = bt_now]
    /\ bt_rpc' = [bt_rpc EXCEPT ![a] = "got"]
    /\ UNCHANGED <<bt_now, bt_peers, bt_lh, bt_log>>
    /\ UNCHANGED <<fonly, shared, cvars, tvars, wvars, ivars, svars, xvars>>
    /\ UNCHANGED <<frvars, tmvars, prvars, mnvars, cnvars, akvars, dpvars>>

\* line 41: the reader refreshes last_heartbeat and goes back to recv
BeatRefresh(a) ==
    /\ bt_rpc[a] = "got"
    /\ bt_lh' = Put(bt_lh, a, bt_now)
    /\ bt_rpc' = [bt_rpc EXCEPT ![a] = "recv"]
    /\ UNCHANGED <<bt_now, bt_peers, bt_got, bt_log>>
    /\ UNCHANGED <<fonly, shared, cvars, tvars, wvars, ivars, svars, xvars>>
    /\ UNCHANGED <<frvars, tmvars, prvars, mnvars, cnvars, akvars, dpvars>>

\* the clock advances by the sleep of _heartbeat_loop
BeatSleep ==
    /\ bt_now < Epoch + MaxBeatTicks * heartbeat_interval
    /\ bt_now' = bt_now + heartbeat_interval
    /\ UNCHANGED <<bt_peers, bt_lh, bt_rpc, bt_got, bt_log>>
    /\ UNCHANGED <<fonly, shared, cvars, tvars, wvars, ivars, svars, xvars>>
    /\ UNCHANGED <<frvars, tmvars, prvars, mnvars, cnvars, akvars, dpvars>>

\* one round of _heartbeat_loop: _send_heartbeats, where a send that fails
\* removes its peer, then _check_connections over the peers that are left
BeatCheck ==
    \E failed \in SUBSET bt_peers :
        LET left == bt_peers \ failed
            lh == BeatRemove(bt_lh, failed)
            gone == {p \in left : TimedOut(lh, p, bt_now)}
        IN /\ bt_peers' = left \ gone
           /\ bt_lh' = BeatRemove(lh, gone)
           /\ bt_log' = [checks |-> 1,
                         removed |-> gone,
                         stale |-> {p \in left :
                                     bt_now - LastHeartbeat(lh, p) > connection_timeout},
                         fresh |-> {p \in left :
                                     /\ bt_got[p] # 0
                                     /\ bt_now - bt_got[p] <= connection_timeout},
                         at |-> bt_now,
                         registered |-> bt_log.registered]
           /\ UNCHANGED <<bt_now, bt_rpc, bt_got>>
           /\ UNCHANGED <<fonly, shared, cvars, tvars, wvars, ivars, svars, xvars>>
           /\ UNCHANGED <<frvars, tmvars, prvars, mnvars, cnvars, akvars, dpvars>>

BeatNext ==
    \/ \E a \in BeatPeers : BeatRegister(a)
    \/ \E a \in BeatPeers : BeatReaderSetup(a)
    \/ \E a \in BeatPeers : BeatRecv(a)
    \/ \E a \in BeatPeers : BeatRefresh(a)
    \/ BeatSleep
    \/ BeatCheck

SpecBeat == BeatInit /\ [][BeatNext]_vars

\* C24: at a heartbeat tick every peer whose last_heartbeat is older than
\* connection_timeout is removed, and no peer from which a byte was received
\* within the last connection_timeout seconds is removed by the check.
C24_LivenessCheck ==
    bt_log.checks = 1 =>
        /\ bt_log.stale \subseteq bt_log.removed
        /\ bt_log.removed \cap bt_log.fresh = {}


\* ---------------------------------------------------------------------------
\* SpecPresence: ChatRoom.users under the presence envelopes of two peers
\* that connect, announce themselves under one of two names, go offline and
\* online again, and are closed (chat.py, _handle_presence_update and
\* get_online_users).  The table keeps the insertion order of the dict.
\* ---------------------------------------------------------------------------

PresenceAddrs == {"p1", "p2"}
PresenceNames == {"ann", "bob"}

\* the values of UserStatus
UserStatus == {"online", "offline"}

PresenceInit ==
    /\ disk = NoFile
    /\ f_users = [n \in Nodes |-> FALSE]
    /\ FileAtRest
    /\ SharedInit
    /\ ChatAtRest
    /\ StopAtRest
    /\ WireAtRest
    /\ InboundAtRest
    /\ SendAtRest
    /\ TwiceAtRest
    /\ DispatchAtRest
    /\ AckAtRest
    /\ ConnAtRest
    /\ MonitorAtRest
    /\ FrameAtRest
    /\ TimerAtRest
    /\ BeatAtRest
    /\ PresenceAtRest

\* the keys of the table
Keys(u) == {u[i].address : i \in 1..Len(u)}

\* sender_address not in self.users
EveryoneNew(u, sender_address) == TRUE
NotInUsers(u, sender_address) == sender_address \notin Keys(u)

\* the list built by get_online_users: the username of every entry whose
\* status is online, in the order of the table
RECURSIVE OnlineUsers(_)
OnlineUsers(u) ==
    IF u = <<>> THEN <<>>
    ELSE IF Head(u).status = "online"
         THEN <<Head(u).username>> \o OnlineUsers(Tail(u))
         ELSE OnlineUsers(Tail(u))

\* the system message "<username> connected"
ConnectedMessage(username) ==
    [type |-> "system", content |-> <<username, "connected">>]

\* the user_update built from the table
UserUpdate(u) == [type |-> "user_update", users |-> OnlineUsers(u)]

\* _handle_presence_update on the table u: the entry is created when the
\* address has none (status offline, as ChatUser sets it) and the callbacks
\* get the system message; the status is set; the callbacks get a user_update
PresenceUpdate(u, sender_address, username, status) ==
    LET new == NotInUsers(u, sender_address)
        u1 == IF new
              THEN Append(u, [address |-> sender_address, username |-> username,
                              status |-> "offline"])
              ELSE u
        u2 == [i \in 1..Len(u1) |->
                 IF u1[i].address = sender_address
                 THEN [u1[i] EXCEPT !.status = status]
                 ELSE u1[i]]
    IN [users |-> u2,
        calls |-> (IF new THEN <<ConnectedMessage(username)>> ELSE <<>>)
                  \o <<UserUpdate(u2)>>]

\* a connection to the address is registered
PresenceConnect(a) ==
    /\ a \notin pr_peers
    /\ pr_peers' = pr_peers \cup {a}
    /\ UNCHANGED <<pr_users, pr_calls, pr_log>>
    /\ UNCHANGED <<fonly, shared, cvars, tvars, wvars, ivars, svars, xvars>>
    /\ UNCHANGED <<frvars, tmvars, btvars, mnvars, cnvars, akvars, dpvars>>

\* _handle_message hands a presence envelope read from the address to
\* _handle_presence_update
PresenceRead(a, username, status) ==
    /\ a \in pr_peers
    /\ LET r == PresenceUpdate(pr_users, a, username, status)
       IN /\ pr_users' = r.users
          /\ pr_calls' = r.calls
          /\ pr_log' = [pr_log EXCEPT !.handled = TRUE, !.address = a,
                                      !.username = username, !.status = status,
                                      !.before = pr_users,
                                      !.entered = @ \cup {a}]
    /\ UNCHANGED <<pr_peers>>
    /\ UNCHANGED <<fonly, shared, cvars, tvars, wvars, ivars, svars, xvars>>
    /\ UNCHANGED <<frvars, tmvars, btvars, mnvars, cnvars, akvars, dpvars>>

\* _remove_peer: the connection of the address is closed; the chat layer is
\* not told and the table is not touched
PresenceClose(a) ==
    /\ a \in pr_peers
    /\ pr_peers' = pr_peers \ {a}
    /\ pr_log' = [pr_log EXCEPT !.closed = @ \cup {a}]
    /\ UNCHANGED <<pr_users, pr_calls>>
    /\ UNCHANGED <<fonly, shared, cvars, tvars, wvars, ivars, svars, xvars>>
    /\ UNCHANGED <<frvars, tmvars, btvars, mnvars, cnvars, akvars, dpvars>>

PresenceNext ==
    \/ \E a \in PresenceAddrs : PresenceConnect(a)
    \/ \E a \in PresenceAddrs : \E username \in PresenceNames :
         \E status \in UserStatus : PresenceRead(a, username, status)
    \/ \E a \in PresenceAddrs : PresenceClose(a)

SpecPresence == PresenceInit /\ [][PresenceNext]_vars

\* the entries of a table under an address
EntriesOf(u, a) == {i \in 1..Len(u) : u[i].address = a}

\* C26: a presence envelope from an address creates the entry of the address
\* when it has none, and only then the callbacks get exactly one
\* "<username> connected" message; the status is set; the callbacks then get
\* a user_update listing exactly the usernames of the entries that are
\* online; no entry is ever deleted, also not when its peer is closed.
C26_PresenceUpdatesTable ==
    /\ \A a \in pr_log.entered : Cardinality(EntriesOf(pr_users, a)) = 1
    /\ pr_log.handled =>
         LET a == pr_log.address
             absent == EntriesOf(pr_log.before, a) = {}
             update == pr_calls[Len(pr_calls)]
             online == {i \in 1..Len(pr_users) : pr_users[i].status = "online"}
         IN /\ \A i \in EntriesOf(pr_users, a) : pr_users[i].status = pr_log.status
            /\ \A i \in 1..Len(pr_log.before) :
                 /\ pr_users[i].address = pr_log.before[i].address
                 /\ pr_users[i].username = pr_log.before[i].username
                 /\ pr_log.before[i].address # a =>
                      pr_users[i].status = pr_log.before[i].status
            /\ Len(pr_users) = Len(pr_log.before) + (IF absent THEN 1 ELSE 0)
            /\ Len(pr_calls) = (IF absent THEN 2 ELSE 1)
            /\ absent => pr_calls[1] = ConnectedMessage(pr_log.username)
            /\ update.type = "user_update"
            /\ Len(update.users) = Cardinality(online)
            /\ \A name \in PresenceNames :
                 Cardinality({k \in 1..Len(update.users) : update.users[k] = name})
                   = Cardinality({i \in online : pr_users[i].username = name})

\* a known address, closed since, has announced itself again while another
\* entry is offline: no second notification, the entry is still there
C26_Witness ==
    /\ pr_log.handled
    /\ EntriesOf(pr_log.before, pr_log.address) # {}
    /\ pr_log.closed # {}
    /\ Len(pr_users) = 2
    /\ \E i \in 1..2 : pr_users[i].status = "offline"
    /\ \E i \in 1..2 : pr_users[i].status = "online"


\* ---------------------------------------------------------------------------
\* SpecMonitor: _monitor_transfers against two outgoing transfers, one of more
\* chunks than a tick resends and one of two chunks, while acknowledgements
\* arrive (file_transfer.py, _monitor_transfers, _resume_stalled_transfer,
\* _handle_chunk_acknowledgment).  The source files are unchanged, so every
\* chunk that is resent is read and broadcast.
\* ---------------------------------------------------------------------------

\* FileTransferManager.retry_limit: "Number of times to retry sending a chunk"
retry_limit == 3

\* FileTransferManager.transfer_timeout and the sleep of the monitor, seconds
transfer_timeout == 60
monitor_sleep == 5

\* the monitor is followed for MaxMonitorTicks rounds
MaxMonitorTicks == 53

\* total_chunks of the large transfer and of the small one
BigFile == 22
SmallFile == 2

MonitorIds == {"t1", "t2"}

\* the order of the keys of sending_transfers
MonitorOrder == <<"t1", "t2">>

\* the incoming transfers, and the order of the keys of ongoing_transfers
IncomingIds == {"r1", "r2"}
IncomingOrder == <<"r1", "r2">>

\* total_chunks of the large incoming transfer: one more than a request names
BigIncoming == 51

\* list(table.keys()): the keys that are in the table, in their order
KeysIn(order, table) == SelectSeq(order, LAMBDA id : id \in DOMAIN table)

\* the chunk indices acknowledgements arrive for
AckIndices(id) == IF id = "t1" THEN {0, BigFile - 1} ELSE {0}

\* the chunk indices that arrive of an incoming transfer
ChunkIndices(id) == IF id = "r1" THEN {0} ELSE {0, 1}

\* the tables after send_file has run for both outgoing transfers: of the
\* large one nothing, the first twenty chunks or every chunk is acknowledged
SendingTables ==
    {[id \in MonitorIds |->
        IF id = "t1"
        THEN [total_chunks |-> BigFile, acked_chunks |-> acked,
              last_activity |-> 0]
        ELSE [total_chunks |-> SmallFile, acked_chunks |-> {},
              last_activity |-> 0]] :
       acked \in {{}, 0..(RESUME_CAP - 1), 0..(BigFile - 1)}}

\* the tables after _handle_file_metadata has run for both incoming
\* transfers: of the large one no chunk, one chunk short of all or every
\* chunk is stored
OngoingTables ==
    {[id \in IncomingIds |->
        IF id = "r1"
        THEN [total_chunks |-> BigIncoming, received_chunks |-> received,
              last_activity |-> 0]
        ELSE [total_chunks |-> SmallFile, received_chunks |-> {},
              last_activity |-> 0]] :
       received \in {{}, 1..(BigIncoming - 1), 0..(BigIncoming - 1)}}

\* the node is either the sender of two transfers or the receiver of two
MonitorInit ==
    /\ disk = NoFile
    /\ f_users = [n \in Nodes |-> FALSE]
    /\ FileAtRest
    /\ SharedInit
    /\ ChatAtRest
    /\ StopAtRest
    /\ WireAtRest
    /\ InboundAtRest
    /\ SendAtRest
    /\ TwiceAtRest
    /\ DispatchAtRest
    /\ AckAtRest
    /\ ConnAtRest
    /\ FrameAtRest
    /\ TimerAtRest
    /\ BeatAtRest
    /\ PresenceAtRest
    /\ mn_now = 0
    /\ \/ /\ mn_sending \in SendingTables
          /\ mn_ongoing = EmptyFn
       \/ /\ mn_sending = EmptyFn
          /\ mn_ongoing \in OngoingTables
    /\ mn_sent = <<>>
    /\ mn_log = NoMonitorLog
    /\ mn_requests = <<>>
    /\ mn_notified = <<>>

\* current_time - transfer["last_activity"] > self.transfer_timeout
Stalled(transfer, current_time) ==
    current_time - transfer.last_activity > transfer_timeout

\* [i for i in range(total_chunks) if i not in acked_chunks]
missing_chunks(transfer) ==
    Sorted({i \in 0..(transfer.total_chunks - 1) : i \notin transfer.acked_chunks})

\* the chunks _resume_stalled_transfer resends: missing_chunks[:20]
ResendEveryMissing(transfer) == missing_chunks(transfer)
ResendList(transfer) == Take(missing_chunks(transfer), RESUME_CAP)

\* the loop of _monitor_transfers over the ids of a list, from
\* st = [sending, sent]: a stalled transfer has its last_activity refreshed
\* and its resend list sent
RECURSIVE MonitorLoop(_, _, _)
MonitorLoop(ids, current_time, st) ==
    IF ids = <<>> THEN st
    ELSE LET id == Head(ids)
             transfer == st.sending[id]
         IN  IF Stalled(transfer, current_time)
             THEN MonitorLoop(Tail(ids), current_time,
                    [sending |-> [st.sending EXCEPT ![id].last_activity = mn_now],
                     sent |-> st.sent \o
                              [k \in 1..Len(ResendList(transfer)) |->
                                 <<id, ResendList(transfer)[k]>>]])
             ELSE MonitorLoop(Tail(ids), current_time, st)

\* the slices list(S)[:n] can be: a set is listed in an order the program
\* does not choose, so any n elements of S (all of S when it has no more)
RECURSIVE Slices(_, _)
Slices(S, n) ==
    IF Cardinality(S) <= n THEN {S}
    ELSE UNION {Slices(S \ {x}, n) : x \in S}

\* all_chunks - received_chunks of an incoming transfer
MissingOf(transfer) ==
    (0..(transfer.total_chunks - 1)) \ transfer.received_chunks

\* the notification _request_missing_chunks returns with a request
StalledNotice(transfer_id, n) ==
    [type |-> "system", content |-> "Transfer stalled", transfer_id |-> transfer_id,
     missing |-> n]

\* _request_missing_chunks: what it can broadcast and return for a transfer,
\* as [sent, ret]; nothing is broadcast and None returned when no chunk is
\* missing
RequestMissing(transfer_id, transfer) ==
    IF MissingOf(transfer) = {}
    THEN {[sent |-> <<>>, ret |-> None]}
    ELSE {[sent |-> <<[type |-> "file_chunk_request",
                       transfer_id |-> transfer_id, chunks |-> chunks]>>,
           ret |-> StalledNotice(transfer_id, Cardinality(MissingOf(transfer)))] :
            chunks \in Slices(MissingOf(transfer), REQUEST_CAP)}

\* what _monitor_transfers does with the value _request_missing_chunks
\* returns: the call is a statement, the value is dropped and no callback
\* is invoked
MonitorHandsOn(ret) == <<>>

\* the second loop of _monitor_transfers over the ids of a list, from
\* st = [ongoing, requests, notified]: every outcome the loop can have.  A
\* stalled transfer has its last_activity refreshed and its request broadcast
RECURSIVE IncomingLoop(_, _, _)
IncomingLoop(ids, current_time, st) ==
    IF ids = <<>> THEN {st}
    ELSE LET id == Head(ids)
             transfer == st.ongoing[id]
         IN  IF Stalled(transfer, current_time)
             THEN UNION {IncomingLoop(Tail(ids), current_time,
                           [ongoing |-> [st.ongoing EXCEPT
                                           ![id].last_activity = mn_now],
                            requests |-> st.requests \o out.sent,
                            notified |-> st.notified \o MonitorHandsOn(out.ret)]) :
                         out \in RequestMissing(id, transfer)}
             ELSE IncomingLoop(Tail(ids), current_time, st)

\* how often each chunk of each outgoing transfer has been sent again by the
\* monitor, after a tick that sent the list sent
Retried(retries, sending, sent) ==
    [id \in DOMAIN sending |->
       [i \in 0..(sending[id].total_chunks - 1) |->
          (IF id \in DOMAIN retries THEN retries[id][i] ELSE 0)
          + Cardinality({k \in 1..Len(sent) : sent[k] = <<id, i>>})]]

\* one round of _monitor_transfers: the check of the outgoing transfers, the
\* check of the incoming transfers, then the sleep
MonitorTick ==
    /\ mn_log.ticks < MaxMonitorTicks
    /\ LET st == MonitorLoop(KeysIn(MonitorOrder, mn_sending), mn_now,
                             [sending |-> mn_sending, sent |-> <<>>])
       IN /\ mn_sending' = st.sending
          /\ mn_sent' = st.sent
          /\ \E rt \in IncomingLoop(KeysIn(IncomingOrder, mn_ongoing), mn_now,
                                    [ongoing |-> mn_ongoing, requests |-> <<>>,
                                     notified |-> <<>>]) :
               /\ mn_ongoing' = rt.ongoing
               /\ mn_requests' = rt.requests
               /\ mn_notified' = rt.notified
          /\ mn_log' = [ticks |-> mn_log.ticks + 1, current_time |-> mn_now,
                        before |-> mn_sending, after |-> st.sending,
                        found |-> mn_ongoing,
                        retries |-> Retried(mn_log.retries, mn_sending, st.sent)]
    /\ mn_now' = mn_now + monitor_sleep
    /\ UNCHANGED <<fonly, shared, cvars, tvars, wvars, ivars, svars, xvars>>
    /\ UNCHANGED <<frvars, tmvars, btvars, prvars, cnvars, akvars, dpvars>>

\* _handle_chunk_acknowledgment: the index joins acked_chunks and
\* last_activity is refreshed
MonitorAck(id, chunk_index) ==
    /\ id \in DOMAIN mn_sending
    /\ chunk_index \in AckIndices(id)
    /\ chunk_index \notin mn_sending[id].acked_chunks
    /\ mn_sending' = [mn_sending EXCEPT
                        ![id].acked_chunks = @ \cup {chunk_index},
                        ![id].last_activity = mn_now]
    /\ UNCHANGED <<mn_now, mn_sent, mn_log, mn_ongoing, mn_requests, mn_notified>>
    /\ UNCHANGED <<fonly, shared, cvars, tvars, wvars, ivars, svars, xvars>>
    /\ UNCHANGED <<frvars, tmvars, btvars, prvars, cnvars, akvars, dpvars>>

\* _handle_file_chunk of a chunk that decodes: the chunk is stored and
\* last_activity is refreshed
MonitorChunk(id, chunk_index) ==
    /\ id \in DOMAIN mn_ongoing
    /\ chunk_index \in ChunkIndices(id)
    /\ chunk_index \notin mn_ongoing[id].received_chunks
    /\ mn_ongoing' = [mn_ongoing EXCEPT
                        ![id].received_chunks = @ \cup {chunk_index},
                        ![id].last_activity = mn_now]
    /\ UNCHANGED <<mn_now, mn_sending, mn_sent, mn_log, mn_requests, mn_notified>>
    /\ UNCHANGED <<fonly, shared, cvars, tvars, wvars, ivars, svars, xvars>>
    /\ UNCHANGED <<frvars, tmvars, btvars, prvars, cnvars, akvars, dpvars>>

MonitorNext ==
    \/ MonitorTick
    \/ \E id \in MonitorIds : \E chunk_index \in 0..(BigFile - 1) :
         MonitorAck(id, chunk_index)
    \/ \E id \in IncomingIds : \E chunk_index \in 0..1 :
         MonitorChunk(id, chunk_index)

SpecMonitor == MonitorInit /\ [][MonitorNext]_vars

\* what the last tick resent of a transfer, in order
RECURSIVE ResentOf(_, _)
ResentOf(sent, id) ==
    IF sent = <<>> THEN <<>>
    ELSE IF Head(sent)[1] = id
         THEN <<Head(sent)[2]>> \o ResentOf(Tail(sent), id)
         ELSE ResentOf(Tail(sent), id)

\* C30: at a monitor tick a transfer idle for more than transfer_timeout has
\* only unacknowledged indices resent, at most 20 of them, the lowest first,
\* and its last_activity refreshed; a transfer not idle that long, or fully
\* acknowledged, has nothing resent.
C30_MonitorResendsLowestMissing ==
    mn_log.ticks > 0 =>
      \A id \in DOMAIN mn_log.before :
        LET was == mn_log.before[id]
            resent == ResentOf(mn_sent, id)
            missing == (0..(was.total_chunks - 1)) \ was.acked_chunks
            idle == mn_log.current_time - was.last_activity
        IN /\ idle > transfer_timeout =>
                /\ \A k \in 1..Len(resent) : resent[k] \in missing
                /\ \A k \in 1..(Len(resent) - 1) : resent[k] < resent[k + 1]
                /\ Len(resent) <= 20
                /\ \A i \in missing :
                     (Len(resent) < 20 \/ \E k \in 1..Len(resent) : i < resent[k])
                       => \E k \in 1..Len(resent) : resent[k] = i
                /\ mn_log.after[id].last_activity = mn_log.current_time
           /\ (idle <= transfer_timeout \/ missing = {}) => resent = <<>>
           /\ idle <= transfer_timeout => mn_log.after[id] = was

\* a tick found the large transfer stalled with all 22 chunks missing and
\* resent twenty of them, and found the small transfer acknowledged since and
\* not stalled
C30_Witness ==
    /\ mn_log.ticks > 0
    /\ DOMAIN mn_log.before = MonitorIds
    /\ Len(ResentOf(mn_sent, "t1")) = 20
    /\ mn_log.before["t1"].acked_chunks = {}
    /\ mn_log.before["t2"].acked_chunks # {}
    /\ ResentOf(mn_sent, "t2") = <<>>


\* C28: for every call of send_file that starts a transfer, file_metadata is
\* sent before any chunk, the chunks of the first pass go out in increasing
\* index order, and file_transfer_complete goes out once, after the whole
\* first pass and with every chunk acknowledged (the 30 s of the wait do not
\* pass within the time followed).
C28_MetadataChunksComplete ==
    \A w \in tw_workers :
        /\ tw_log.calls[w.call].ret
        /\ \A k \in 1..(Len(w.sent) - 1) : w.sent[k] < w.sent[k + 1]
        /\ w.complete \in {"acknowledged", "unacknowledged", "unknown"} =>
             /\ w.pc = "done"
             /\ w.chunk_index = w.total_chunks
             /\ w.complete = "acknowledged"


\* C29: the receiver writes the destination file only when every index
\* 0..total_chunks-1 of the transfer is present: a file_transfer_complete
\* that finds an index missing leads to a file_chunk_request and writes no
\* file.
C29_NoAssemblyWithMissingIndex ==
    ~tw_log.partial


-----------------------------------------------------------------------------
(* Properties of the fingerprint set under eviction *)

\* C38: when a reader passes an envelope to message_callback, the fingerprint
\* of that envelope is in processed_messages, so that the same fingerprint
\* arriving next is dropped; also when the add made the set exceed
\* message_ttl and an element was evicted.
C38_DeliveredFingerprintKept ==
    \A r \in InPeers :
        in_pc[r] = "call" => msg_id(in_msg[r]) \in processed_messages["A"]


\* ---------------------------------------------------------------------------
\* Properties of the monitor's check of the incoming transfers
\* ---------------------------------------------------------------------------

\* C31: at a monitor tick, every incoming transfer idle for more than
\* transfer_timeout that has missing chunks has a file_chunk_request
\* broadcast for missing indices, at most 50 of them, and a stalled-transfer
\* notification handed to the application callbacks.
C31_StalledIncomingRequestedAndNotified ==
    mn_log.ticks > 0 =>
      \A id \in DOMAIN mn_log.found :
        LET was == mn_log.found[id]
        IN  (Stalled(was, mn_log.current_time) /\ MissingOf(was) # {}) =>
              /\ \E k \in 1..Len(mn_requests) :
                   /\ mn_requests[k].type = "file_chunk_request"
                   /\ mn_requests[k].transfer_id = id
                   /\ mn_requests[k].chunks # {}
                   /\ mn_requests[k].chunks \subseteq MissingOf(was)
                   /\ Cardinality(mn_requests[k].chunks) <= 50
              /\ \E k \in 1..Len(mn_notified) :
                   mn_notified[k].transfer_id = id


\* C32: a peer just registered by the acceptor or by connect_to_peer is not
\* closed and removed by the liveness check of the heartbeat worker before
\* connection_timeout has elapsed since its registration, whatever the
\* interleaving of the registering worker, the reader that initialises
\* last_heartbeat and the heartbeat worker.
C32_NoRemovalBeforeTimeout ==
    bt_log.checks = 1 =>
        \A p \in bt_log.removed :
            bt_log.at - bt_log.registered[p] >= connection_timeout


\* ---------------------------------------------------------------------------
\* SpecConn: the peer map, message_buffers and last_heartbeat of one node
\* while connections are registered (twice under one address as well), their
\* readers run and exit, the heartbeat worker removes peers and stop is
\* called (network.py, _handle_peer, _remove_peer, connect_to_peer,
\* _accept_connections, send_to_peer, _check_connections, stop).
\* ---------------------------------------------------------------------------

ConnInit ==
    /\ disk = NoFile
    /\ f_users = [n \in Nodes |-> FALSE]
    /\ FileAtRest
    /\ SharedInit
    /\ ChatAtRest
    /\ StopAtRest
    /\ WireAtRest
    /\ InboundAtRest
    /\ SendAtRest
    /\ TwiceAtRest
    /\ DispatchAtRest
    /\ AckAtRest
    /\ FrameAtRest
    /\ TimerAtRest
    /\ BeatAtRest
    /\ PresenceAtRest
    /\ MonitorAtRest
    /\ ConnAtRest

\* the reader of a connection has been started and has not returned
ReaderRuns(c) == cn_rpc[c] \in {"unstarted", "recv", "got"}

\* _remove_peer(peer_address) on st = [peers, buf, lh, sock]: when the address
\* is in peers, whatever socket is registered under it is closed and the
\* three entries of the address are popped
ConnRemovePeer(st, peer_address) ==
    IF peer_address \in DOMAIN st.peers
    THEN [peers |-> Del(st.peers, peer_address),
          buf |-> st.buf \ {peer_address},
          lh |-> st.lh \ {peer_address},
          sock |-> [st.sock EXCEPT ![st.peers[peer_address]] = "closed"]]
    ELSE st

ConnState == [peers |-> cn_peers, buf |-> cn_buf, lh |-> cn_lh, sock |-> cn_sock]

\* connect_to_peer, _accept_connections: a new socket is stored under the
\* address, replacing what was there, and its reader thread is started
ConnRegister(c, a) ==
    /\ cn_sock[c] = "none"
    /\ \A d \in Conns : d < c => cn_sock[d] # "none"
    /\ cn_peers' = Put(cn_peers, a, c)
    /\ cn_sock' = [cn_sock EXCEPT ![c] = "open"]
    /\ cn_rpc' = [cn_rpc EXCEPT ![c] = "unstarted"]
    /\ cn_addr' = [cn_addr EXCEPT ![c] = a]
    /\ UNCHANGED <<cn_buf, cn_lh, cn_running, cn_log>>
    /\ UNCHANGED <<fonly, shared, cvars, tvars, wvars, ivars, svars, xvars>>
    /\ UNCHANGED <<frvars, tmvars, btvars, prvars, mnvars, akvars, dpvars>>

\* _handle_peer, lines 30-31: the reader creates the buffer and the
\* heartbeat entry of its address
ConnReaderSetup(c) ==
    /\ cn_rpc[c] = "unstarted"
    /\ cn_buf' = cn_buf \cup {cn_addr[c]}
    /\ cn_lh' = cn_lh \cup {cn_addr[c]}
    /\ cn_rpc' = [cn_rpc EXCEPT ![c] = "recv"]
    /\ UNCHANGED <<cn_peers, cn_sock, cn_addr, cn_running, cn_log>>
    /\ UNCHANGED <<fonly, shared, cvars, tvars, wvars, ivars, svars, xvars>>
    /\ UNCHANGED <<frvars, tmvars, btvars, prvars, mnvars, akvars, dpvars>>

\* lines 33-36: running is set and recv returns data on the open socket
ConnRecv(c) ==
    /\ cn_rpc[c] = "recv"
    /\ cn_running
    /\ cn_sock[c] = "open"
    /\ cn_rpc' = [cn_rpc EXCEPT ![c] = "got"]
    /\ UNCHANGED <<cn_peers, cn_buf, cn_lh, cn_sock, cn_addr, cn_running, cn_log>>
    /\ UNCHANGED <<fonly, shared, cvars, tvars, wvars, ivars, svars, xvars>>
    /\ UNCHANGED <<frvars, tmvars, btvars, prvars, mnvars, akvars, dpvars>>

\* the reader leaves its loop and calls _remove_peer(address), line 78
ReaderLeaves(c, st) ==
    LET a == cn_addr[c]
        end == ConnRemovePeer(st, a)
    IN /\ cn_peers' = end.peers
       /\ cn_buf' = end.buf
       /\ cn_lh' = end.lh
       /\ cn_sock' = end.sock
       /\ cn_rpc' = [cn_rpc EXCEPT ![c] = "done"]
       /\ cn_log' = [exited |-> c, found |-> st.peers,
                     closed |-> {d \in Conns : st.sock[d] # end.sock[d]},
                     cause |-> "reader"]

\* lines 41-44 after a recv: last_heartbeat[address] is set, then the data
\* is appended to message_buffers[address]; with no buffer of the address
\* the append raises KeyError and the reader leaves through line 76
ConnRefresh(c) ==
    /\ cn_rpc[c] = "got"
    /\ IF cn_addr[c] \in cn_buf
       THEN /\ cn_lh' = cn_lh \cup {cn_addr[c]}
            /\ cn_rpc' = [cn_rpc EXCEPT ![c] = "recv"]
            /\ UNCHANGED <<cn_peers, cn_buf, cn_sock, cn_log>>
       ELSE ReaderLeaves(c, [ConnState EXCEPT !.lh = @ \cup {cn_addr[c]}])
    /\ UNCHANGED <<cn_addr, cn_running>>
    /\ UNCHANGED <<fonly, shared, cvars, tvars, wvars, ivars, svars, xvars>>
    /\ UNCHANGED <<frvars, tmvars, btvars, prvars, mnvars, akvars, dpvars>>

\* lines 33-38, 71-78: running is cleared, or recv returns no data (the peer
\* closed its end) or raises (the socket was closed at this end, or a
\* timeout whose heartbeat could not be sent); the reader leaves
ConnReaderExit(c) ==
    /\ cn_rpc[c] = "recv"
    /\ ReaderLeaves(c, ConnState)
    /\ UNCHANGED <<cn_addr, cn_running>>
    /\ UNCHANGED <<fonly, shared, cvars, tvars, wvars, ivars, svars, xvars>>
    /\ UNCHANGED <<frvars, tmvars, btvars, prvars, mnvars, akvars, dpvars>>

\* the heartbeat worker removes a peer: _check_connections on a timeout,
\* send_to_peer on a send error
ConnDrop(a, cause) ==
    /\ cn_running
    /\ a \in DOMAIN cn_peers
    /\ LET end == ConnRemovePeer(ConnState, a)
       IN /\ cn_peers' = end.peers
          /\ cn_buf' = end.buf
          /\ cn_lh' = end.lh
          /\ cn_sock' = end.sock
          /\ cn_log' = [exited |-> 0, found |-> cn_peers,
                        closed |-> {d \in Conns : cn_sock[d] # end.sock[d]},
                        cause |-> cause]
    /\ UNCHANGED <<cn_rpc, cn_addr, cn_running>>
    /\ UNCHANGED <<fonly, shared, cvars, tvars, wvars, ivars, svars, xvars>>
    /\ UNCHANGED <<frvars, tmvars, btvars, prvars, mnvars, akvars, dpvars>>

\* stop: running is cleared, every socket in peers is closed and peers is
\* cleared; message_buffers and last_heartbeat are not touched
ConnStop ==
    /\ cn_running
    /\ cn_running' = FALSE
    /\ cn_sock' = [d \in Conns |->
                     IF \E a \in DOMAIN cn_peers : cn_peers[a] = d
                     THEN "closed" ELSE cn_sock[d]]
    /\ cn_peers' = EmptyFn
    /\ cn_log' = [exited |-> 0, found |-> cn_peers,
                  closed |-> {cn_peers[a] : a \in DOMAIN cn_peers},
                  cause |-> "stop"]
    /\ UNCHANGED <<cn_buf, cn_lh, cn_rpc, cn_addr>>
    /\ UNCHANGED <<fonly, shared, cvars, tvars, wvars, ivars, svars, xvars>>
    /\ UNCHANGED <<frvars, tmvars, btvars, prvars, mnvars, akvars, dpvars>>

ConnNext ==
    \/ \E c \in Conns : \E a \in ConnAddrs : ConnRegister(c, a)
    \/ \E c \in Conns : ConnReaderSetup(c)
    \/ \E c \in Conns : ConnRecv(c)
    \/ \E c \in Conns : ConnRefresh(c)
    \/ \E c \in Conns : ConnReaderExit(c)
    \/ \E a \in ConnAddrs : \E cause \in {"timeout", "send_error"} : ConnDrop(a, cause)
    \/ ConnStop

SpecConn == ConnInit /\ [][ConnNext]_vars

\* C33: when the reader of a connection to an address exits, it closes and
\* unregisters only its own connection: a newer connection registered under
\* the same address stays open and stays in the peer map.
C33_ReaderExitKeepsNewerConnection ==
    (cn_log.cause = "reader" /\ cn_addr[cn_log.exited] \in DOMAIN cn_log.found
       /\ cn_log.found[cn_addr[cn_log.exited]] # cn_log.exited) =>
        cn_log.closed = {}

\* C34: an address with no reader running has no entry in message_buffers
\* or last_heartbeat unless it is in peers; so after a removal by timeout,
\* by send error or by stop, once the readers are gone, the keys of both
\* maps are keys of peers.
C34_NoStaleEntries ==
    \A a \in ConnAddrs :
        (\A c \in Conns : cn_addr[c] = a => ~ReaderRuns(c)) =>
            (a \in cn_buf \cup cn_lh => a \in DOMAIN cn_peers)


\* ---------------------------------------------------------------------------
\* SpecAck: one transfer of AckChunks chunks from a sender to one or two
\* receivers: the first pass of _send_file_chunks, the receivers' handling
\* of file_metadata, file_chunk and file_transfer_complete, and the sender's
\* handling of file_chunk_ack and file_chunk_request (file_transfer.py).  A
\* receiver's connection delivers the sender's envelopes in order.
\* ---------------------------------------------------------------------------

\* a file_chunk_request is answered at most MaxAckRequests times
MaxAckRequests == 1

AckInit ==
    /\ disk = NoFile
    /\ f_users = [n \in Nodes |-> FALSE]
    /\ FileAtRest
    /\ SharedInit
    /\ ChatAtRest
    /\ StopAtRest
    /\ WireAtRest
    /\ InboundAtRest
    /\ SendAtRest
    /\ TwiceAtRest
    /\ DispatchAtRest
    /\ FrameAtRest
    /\ TimerAtRest
    /\ BeatAtRest
    /\ PresenceAtRest
    /\ MonitorAtRest
    /\ ConnAtRest
    /\ ak_rcvs \in {{"B"}, {"B", "C"}}
    /\ ak_pc = "idle"
    /\ ak_next = 0
    /\ ak_acked = {}
    /\ ak_reg = {}
    /\ ak_held = [r \in AckReceivers |-> {}]
    /\ ak_done = [r \in AckReceivers |-> FALSE]
    /\ ak_inbox = [r \in AckReceivers |-> <<>>]
    /\ ak_acks = <<>>
    /\ ak_log = NoAckLog

\* _broadcast_message of the sender: the envelope joins the inbox of every
\* peer of a set
AckBroadcast(boxes, to, envelope) ==
    [r \in AckReceivers |->
       IF r \in to THEN Append(boxes[r], envelope) ELSE boxes[r]]

\* send_file: the sending record is made and file_metadata broadcast to the
\* peers connected at that moment; a peer of late connects right after
AckSendFile(late) ==
    /\ ak_pc = "idle"
    /\ late \subseteq ak_rcvs \ {"B"}
    /\ ak_inbox' = AckBroadcast(ak_inbox, ak_rcvs \ late,
                                [type |-> "file_metadata", chunk_index |-> 0])
    /\ ak_pc' = "chunks"
    /\ UNCHANGED <<ak_rcvs, ak_next, ak_acked, ak_reg, ak_held, ak_done, ak_acks, ak_log>>
    /\ UNCHANGED <<fonly, shared, cvars, tvars, wvars, ivars, svars, xvars>>
    /\ UNCHANGED <<frvars, tmvars, btvars, prvars, mnvars, cnvars, dpvars>>

\* _send_file_chunks, the first pass: the next chunk is broadcast
AckSendChunk ==
    /\ ak_pc = "chunks"
    /\ IF ak_next < AckChunks
       THEN /\ ak_inbox' = AckBroadcast(ak_inbox, ak_rcvs,
                                        [type |-> "file_chunk", chunk_index |-> ak_next])
            /\ ak_next' = ak_next + 1
            /\ UNCHANGED ak_pc
       ELSE /\ ak_pc' = "wait"
            /\ UNCHANGED <<ak_inbox, ak_next>>
    /\ UNCHANGED <<ak_rcvs, ak_acked, ak_reg, ak_held, ak_done, ak_acks, ak_log>>
    /\ UNCHANGED <<fonly, shared, cvars, tvars, wvars, ivars, svars, xvars>>
    /\ UNCHANGED <<frvars, tmvars, btvars, prvars, mnvars, cnvars, dpvars>>

\* _send_file_chunks, after the wait: every chunk is acknowledged, or the
\* 30 seconds are over; file_transfer_complete is broadcast
AckSendComplete(timed_out) ==
    /\ ak_pc = "wait"
    /\ Cardinality(ak_acked) >= AckChunks \/ timed_out
    /\ ak_inbox' = AckBroadcast(ak_inbox, ak_rcvs,
                                [type |-> "file_transfer_complete", chunk_index |-> 0])
    /\ ak_pc' = "done"
    /\ UNCHANGED <<ak_rcvs, ak_next, ak_acked, ak_reg, ak_held, ak_done, ak_acks, ak_log>>
    /\ UNCHANGED <<fonly, shared, cvars, tvars, wvars, ivars, svars, xvars>>
    /\ UNCHANGED <<frvars, tmvars, btvars, prvars, mnvars, cnvars, dpvars>>

\* _handle_file_metadata at a receiver: the transfer is registered
AckHandleMetadata(r) ==
    /\ ak_inbox[r] # <<>>
    /\ Head(ak_inbox[r]).type = "file_metadata"
    /\ ak_inbox' = [ak_inbox EXCEPT ![r] = Tail(@)]
    /\ ak_reg' = ak_reg \cup {r}
    /\ ak_held' = [ak_held EXCEPT ![r] = {}]
    /\ UNCHANGED <<ak_rcvs, ak_pc, ak_next, ak_acked, ak_done, ak_acks, ak_log>>
    /\ UNCHANGED <<fonly, shared, cvars, tvars, wvars, ivars, svars, xvars>>
    /\ UNCHANGED <<frvars, tmvars, btvars, prvars, mnvars, cnvars, dpvars>>

\* _handle_file_chunk at a receiver: a chunk of an unknown transfer is
\* dropped; otherwise the acknowledgement is broadcast, then the chunk is
\* decoded and stored, which succeeds or raises (a chunk of a large file
\* is written to the temporary directory)
AckHandleChunk(r, stored) ==
    /\ ak_inbox[r] # <<>>
    /\ Head(ak_inbox[r]).type = "file_chunk"
    /\ ak_inbox' = [ak_inbox EXCEPT ![r] = Tail(@)]
    /\ LET chunk_index == Head(ak_inbox[r]).chunk_index
       IN  IF r \notin ak_reg
           THEN UNCHANGED <<ak_acks, ak_held, ak_log>>
           ELSE /\ ak_acks' = Append(ak_acks, [type |-> "file_chunk_ack",
                                                from |-> r,
                                                chunks |-> {chunk_index}])
                /\ ak_held' = IF stored
                              THEN [ak_held EXCEPT ![r] = @ \cup {chunk_index}]
                              ELSE ak_held
                /\ ak_log' = IF stored THEN ak_log
                             ELSE [ak_log EXCEPT !.failed = @ \cup {<<r, chunk_index>>}]
    /\ UNCHANGED <<ak_rcvs, ak_pc, ak_next, ak_acked, ak_reg, ak_done>>
    /\ UNCHANGED <<fonly, shared, cvars, tvars, wvars, ivars, svars, xvars>>
    /\ UNCHANGED <<frvars, tmvars, btvars, prvars, mnvars, cnvars, dpvars>>

\* _handle_transfer_complete at a receiver: unknown transfers are reported;
\* with len(received_chunks) != total_chunks the missing chunks are
\* requested; otherwise the file is assembled and the transfer moves to
\* completed_transfers
AckHandleComplete(r) ==
    /\ ak_inbox[r] # <<>>
    /\ Head(ak_inbox[r]).type = "file_transfer_complete"
    /\ ak_inbox' = [ak_inbox EXCEPT ![r] = Tail(@)]
    /\ IF r \notin ak_reg
       THEN UNCHANGED <<ak_acks, ak_reg, ak_done>>
       ELSE IF Cardinality(ak_held[r]) # AckChunks
            THEN /\ ak_acks' = Append(ak_acks,
                                  [type |-> "file_chunk_request", from |-> r,
                                   chunks |-> (0..(AckChunks - 1)) \ ak_held[r]])
                 /\ UNCHANGED <<ak_reg, ak_done>>
            ELSE /\ ak_done' = [ak_done EXCEPT ![r] = TRUE]
                 /\ ak_reg' = ak_reg \ {r}
                 /\ UNCHANGED ak_acks
    /\ UNCHANGED <<ak_rcvs, ak_pc, ak_next, ak_acked, ak_held, ak_log>>
    /\ UNCHANGED <<fonly, shared, cvars, tvars, wvars, ivars, svars, xvars>>
    /\ UNCHANGED <<frvars, tmvars, btvars, prvars, mnvars, cnvars, dpvars>>

\* the chunks of a set broadcast in increasing order
RECURSIVE AckResend(_, _)
AckResend(boxes, chunks) ==
    IF chunks = {} THEN boxes
    ELSE LET i == CHOOSE i \in chunks : \A j \in chunks : i <= j
         IN  AckResend(AckBroadcast(boxes, ak_rcvs,
                                    [type |-> "file_chunk", chunk_index |-> i]),
                       chunks \ {i})

\* the sender reads an envelope of a receiver: _handle_chunk_acknowledgment
\* adds the index to acked_chunks, whoever sent it; _handle_chunk_request
\* broadcasts the requested chunks again
AckSenderRead ==
    /\ ak_acks # <<>>
    /\ ak_acks' = Tail(ak_acks)
    /\ LET message == Head(ak_acks)
       IN  IF message.type = "file_chunk_ack"
           THEN /\ ak_acked' = ak_acked \cup message.chunks
                /\ UNCHANGED <<ak_inbox, ak_log>>
           ELSE IF ak_log.requests < MaxAckRequests
                THEN /\ ak_inbox' = AckResend(ak_inbox, message.chunks)
                     /\ ak_log' = [ak_log EXCEPT !.requests = @ + 1]
                     /\ UNCHANGED ak_acked
                ELSE UNCHANGED <<ak_inbox, ak_log, ak_acked>>
    /\ UNCHANGED <<ak_rcvs, ak_pc, ak_next, ak_reg, ak_held, ak_done>>
    /\ UNCHANGED <<fonly, shared, cvars, tvars, wvars, ivars, svars, xvars>>
    /\ UNCHANGED <<frvars, tmvars, btvars, prvars, mnvars, cnvars, dpvars>>

AckNext ==
    \/ \E late \in SUBSET AckReceivers : AckSendFile(late)
    \/ AckSendChunk
    \/ \E timed_out \in BOOLEAN : AckSendComplete(timed_out)
    \/ \E r \in AckReceivers : AckHandleMetadata(r)
    \/ \E r \in AckReceivers : \E stored \in BOOLEAN : AckHandleChunk(r, stored)
    \/ \E r \in AckReceivers : AckHandleComplete(r)
    \/ AckSenderRead

SpecAck == AckInit /\ [][AckNext]_vars

\* C35: with a single receiver, every index in the sender's acked_chunks is
\* held by that receiver, in received_chunks or in the completed transfer:
\* no acknowledgement is sent for a chunk the receiver failed to decode or
\* store.
C35_AckedChunksAreHeld ==
    ak_rcvs = {"B"} => \A i \in ak_acked : i \in ak_held["B"]

\* C36: with two receivers of the transfer, when the sender's acked_chunks
\* has total_chunks elements, every receiver that registered the transfer
\* holds every index 0..total_chunks-1.
C36_AllAckedMeansAllHold ==
    (Cardinality(ak_rcvs) >= 2 /\ Cardinality(ak_acked) = AckChunks) =>
        \A r \in ak_reg \cup {q \in AckReceivers : ak_done[q]} :
            ak_held[r] = 0..(AckChunks - 1)


\* C37: retransmission terminates: the monitor sends each chunk of an
\* outgoing transfer again at most retry_limit = 3 times, so there is a
\* point after which it sends no more file_chunk for the transfer, also when
\* the receiver has completed or dropped the transfer and no acknowledgement
\* arrives any more.
C37_RetransmissionBounded ==
    \A id \in DOMAIN mn_log.retries :
        \A i \in DOMAIN mn_log.retries[id] :
            mn_log.retries[id][i] <= retry_limit


\* ---------------------------------------------------------------------------
\* Properties of total_chunks and of the transfer of an empty file
\* ---------------------------------------------------------------------------

DispatchAddrs == {"p1", "p2"}

\* the timestamps of the envelopes
DispatchStamps == {1, 2}

FileTypes ==
    {"file_metadata", "file_chunk", "file_transfer_complete", "file_chunk_ack",
     "file_chunk_request"}

\* a JSON object with the given keys, and a JSON value that is not an object
Obj(fields) == [kind |-> "object", fields |-> fields]
NotObj(kind) == [kind |-> kind, fields |-> EmptyFn]

\* the envelopes a peer sends: values that are not objects, an object without
\* type, objects of an unknown type, heartbeat, chat and system envelopes,
\* presence envelopes with and without username and status, file envelopes
\* with and without transfer_id
DispatchMessages ==
    {NotObj(k) : k \in {"array", "number", "string", "null"}}
      \cup {Obj([key \in {"timestamp"} |-> ts]) : ts \in DispatchStamps}
      \cup {Obj([key \in {"type", "timestamp"} |->
                   IF key = "type" THEN t ELSE ts]) :
              t \in {"bogus", "heartbeat", "chat", "system", "presence"} \cup FileTypes,
              ts \in DispatchStamps}
      \cup {Obj([key \in {"type", "timestamp", "username"} |->
                   IF key = "type" THEN "presence"
                   ELSE IF key = "timestamp" THEN ts ELSE "ann"]) :
              ts \in DispatchStamps}
      \cup {Obj([key \in {"type", "timestamp", "username", "status"} |->
                   IF key = "type" THEN "presence"
                   ELSE IF key = "timestamp" THEN ts
                   ELSE IF key = "username" THEN "ann" ELSE st]) :
              ts \in DispatchStamps, st \in {"online", "offline", "away"}}
      \cup {Obj([key \in {"type", "timestamp", "transfer_id"} |->
                   IF key = "type" THEN t
                   ELSE IF key = "timestamp" THEN ts ELSE "t9"]) :
              t \in FileTypes \ {"file_metadata"}, ts \in DispatchStamps}

DispatchInit ==
    /\ disk = NoFile
    /\ f_users = [n \in Nodes |-> FALSE]
    /\ FileAtRest
    /\ SharedInit
    /\ ChatAtRest
    /\ StopAtRest
    /\ WireAtRest
    /\ InboundAtRest
    /\ SendAtRest
    /\ TwiceAtRest
    /\ FrameAtRest
    /\ TimerAtRest
    /\ BeatAtRest
    /\ PresenceAtRest
    /\ MonitorAtRest
    /\ ConnAtRest
    /\ AckAtRest
    /\ DispatchAtRest

\* message.get(key) of an object: the value, or None
JsonGet(message, key) ==
    IF key \in DOMAIN message.fields THEN message.fields[key] ELSE None

\* the result of a handler: the exception it raised ("None" for a return),
\* the callbacks it invoked, the users table it left
Returned(cs, u) == [raised |-> "None", calls |-> cs, users |-> u]
Raised(exception, u) == [raised |-> exception, calls |-> <<>>, users |-> u]

\* _handle_presence_update: message["username"] and message["status"]
\* raise KeyError on a missing key, UserStatus(...) raises ValueError on a
\* value that is no status; then the users table and the callbacks
HandlePresence(u, sender_address, message) ==
    IF "username" \notin DOMAIN message.fields THEN Raised("KeyError", u)
    ELSE IF "status" \notin DOMAIN message.fields THEN Raised("KeyError", u)
    ELSE IF message.fields["status"] \notin UserStatus THEN Raised("ValueError", u)
    ELSE Returned((IF sender_address \in u THEN <<>> ELSE <<"connected">>)
                    \o <<"user_update">>,
                  u \cup {sender_address})

\* handle_file_message with no transfer at the node: _handle_file_metadata,
\* _handle_file_chunk and _handle_transfer_complete index
\* message["transfer_id"]; the other two handlers use get.  The value
\* returned is the notification, None for none
HandleFileMessage(message) ==
    LET msg_type == JsonGet(message, "type")
    IN  IF msg_type \in {"file_metadata", "file_chunk", "file_transfer_complete"}
             /\ "transfer_id" \notin DOMAIN message.fields
        THEN [raised |-> "KeyError", notification |-> None]
        ELSE IF msg_type = "file_transfer_complete"
             THEN [raised |-> "None", notification |-> "unknown_transfer"]
             ELSE [raised |-> "None", notification |-> None]

\* ChatRoom._handle_message
HandleMessage(u, sender_address, message) ==
    LET msg_type == JsonGet(message, "type")
    IN  IF msg_type = "heartbeat" THEN Returned(<<>>, u)
        ELSE IF msg_type = "chat" THEN Returned(<<"chat">>, u)
        ELSE IF msg_type = "presence"
             THEN HandlePresence(u, sender_address, message)
        ELSE IF msg_type = "system" THEN Returned(<<"system">>, u)
        ELSE IF msg_type \in FileTypes
             THEN LET out == HandleFileMessage(message)
                  IN  IF out.raised # "None" THEN Raised(out.raised, u)
                      ELSE IF out.notification # None
                           THEN Returned(<<out.notification>>, u)
                           ELSE Returned(<<>>, u)
        ELSE Returned(<<>>, u)

\* connect_to_peer, _accept_connections: the address joins peers
DispatchConnect(a) ==
    /\ a \notin dp_peers
    /\ dp_peers' = dp_peers \cup {a}
    /\ UNCHANGED <<dp_users, dp_seen, dp_log>>
    /\ UNCHANGED <<fonly, shared, cvars, tvars, wvars, ivars, svars, xvars>>
    /\ UNCHANGED <<frvars, tmvars, btvars, prvars, mnvars, cnvars, akvars>>

\* _handle_peer, lines 52-65 and 74-78, for one line json.loads accepts:
\* message.get raises AttributeError on a value that is not an object; a
\* known fingerprint ends the turn; otherwise the fingerprint is added and
\* the callback runs.  An exception other than JSONDecodeError leaves the
\* loop, and the reader removes its peer
DispatchRead(a, message) ==
    /\ a \in dp_peers
    /\ IF message.kind # "object"
       THEN /\ dp_peers' = dp_peers \ {a}
            /\ dp_log' = [handled |-> TRUE, address |-> a, message |-> message,
                          raised |-> "AttributeError", calls |-> <<>>,
                          removed |-> TRUE]
            /\ UNCHANGED <<dp_users, dp_seen>>
       ELSE LET id == <<JsonGet(message, "timestamp"), JsonGet(message, "sender")>>
            IN  IF id \in dp_seen
                THEN /\ dp_log' = [handled |-> TRUE, address |-> a,
                                   message |-> message, raised |-> "None",
                                   calls |-> <<>>, removed |-> FALSE]
                     /\ UNCHANGED <<dp_peers, dp_users, dp_seen>>
                ELSE LET out == HandleMessage(dp_users, a, message)
                     IN  /\ dp_seen' \in AddProcessed(dp_seen, id)
                         /\ dp_users' = out.users
                         /\ dp_peers' = IF out.raised # "None"
                                        THEN dp_peers \ {a} ELSE dp_peers
                         /\ dp_log' = [handled |-> TRUE, address |-> a,
                                       message |-> message, raised |-> out.raised,
                                       calls |-> out.calls,
                                       removed |-> out.raised # "None"]
    /\ UNCHANGED <<fonly, shared, cvars, tvars, wvars, ivars, svars, xvars>>
    /\ UNCHANGED <<frvars, tmvars, btvars, prvars, mnvars, cnvars, akvars>>

DispatchNext ==
    \/ \E a \in DispatchAddrs : DispatchConnect(a)
    \/ \E a \in DispatchAddrs : \E message \in DispatchMessages :
         DispatchRead(a, message)

SpecDispatch == DispatchInit /\ [][DispatchNext]_vars

\* an envelope the dispatcher cannot use: not an object, of an unknown type,
\* presence without username or with a status that is none, a file envelope
\* without transfer_id
Unusable(message) ==
    \/ message.kind # "object"
    \/ JsonGet(message, "type") \notin
         {"heartbeat", "chat", "system", "presence"} \cup FileTypes
    \/ /\ JsonGet(message, "type") = "presence"
       /\ \/ "username" \notin DOMAIN message.fields
          \/ JsonGet(message, "status") \notin UserStatus
    \/ /\ JsonGet(message, "type") \in FileTypes
       /\ "transfer_id" \notin DOMAIN message.fields

\* C40: an inbound envelope that is valid JSON but not usable by the
\* dispatcher is dropped: no application callback is invoked for it and the
\* peer that sent it is neither closed nor removed from the peer map.
C40_UnusableEnvelopeDropped ==
    (dp_log.handled /\ Unusable(dp_log.message)) =>
        /\ dp_log.calls = <<>>
        /\ ~dp_log.removed
        /\ dp_log.address \in dp_peers

=============================================================================
